---- MODULE Spec2Model ----
(***************************************************************************)
(* A model of rsc.io/gerrit's review command: the change-summary and       *)
(* patch-set documents (showCL, showPatchSet), their reconciliation        *)
(* against the snapshot (writeCL, writePatchSet) and the window commands   *)
(* that drive them (load, put, submit, abandon, Nop).                      *)
(*                                                                         *)
(* Strings the code inspects character by character (e-mail addresses,     *)
(* reviewer tokens, vote strings) are sequences of one-character strings.  *)
(* Document bodies are sequences of lines; a line is a record naming the   *)
(* class the code's prefix tests and regular expressions put it in.        *)
(***************************************************************************)
EXTENDS Integers, Sequences, FiniteSets, TLC

VARIABLES
    mode,     \* awin.mode: modeCL or modePatchSet
    basePatchSet, \* awin.basePatchSet: 0 when the window shows no base
    gerrit,   \* the remote change, as the Gerrit server holds it
    cl,       \* awin.cl: the snapshot of the last successful load, or NoCL
    body,     \* the window body: the document, a sequence of lines
    flagN,    \* *flagN, the process-wide dry-run flag
    last,     \* what the last command did: its remote calls, diagnostics, result
    hist,     \* bookkeeping of the run: edits made, passes of the same document,
              \* and acme's clean flag (the body is the loaded text, untouched)
    all,      \* the registry of windows: all.m and all.numwin
    wins,     \* the windows of the process and where their event loops stand
    format    \* a call of formatUnifiedDiff: its local variables, loop by loop

\* the window whose commands are followed
window == <<mode, basePatchSet, gerrit, cl, body, flagN, last, hist>>

vars == <<mode, basePatchSet, gerrit, cl, body, flagN, last, hist, all, wins, format>>

----------------------------------------------------------------------------
(* Strings *)

\* strings.Index(s, c) for a one-character c, 1-based; 0 when c is absent
Index(s, c) ==
    IF \E i \in 1..Len(s) : s[i] = c
    THEN CHOOSE i \in 1..Len(s) : s[i] = c /\ \A j \in 1..(i-1) : s[j] # c
    ELSE 0

Contains(s, c) == Index(s, c) > 0

HasSuffix(s, suf) ==
    /\ Len(s) >= Len(suf)
    /\ SubSeq(s, Len(s) - Len(suf) + 1, Len(s)) = suf

\* strings.TrimSpace on a character sequence
RECURSIVE TrimLeft(_)
TrimLeft(s) == IF s # <<>> /\ Head(s) = " " THEN TrimLeft(Tail(s)) ELSE s

RECURSIVE TrimRight(_)
TrimRight(s) ==
    IF s # <<>> /\ s[Len(s)] = " " THEN TrimRight(SubSeq(s, 1, Len(s) - 1)) ELSE s

TrimSpace(s) == TrimRight(TrimLeft(s))

Digits == <<"0", "1", "2", "3", "4", "5", "6", "7", "8", "9">>

IsDigit(c) == \E d \in 1..10 : Digits[d] = c

DigitVal(c) == (CHOOSE d \in 1..10 : Digits[d] = c) - 1

RECURSIVE Natoi(_, _)
Natoi(s, acc) == IF s = <<>> THEN acc ELSE Natoi(Tail(s), 10 * acc + DigitVal(Head(s)))

\* strconv.Atoi with the error dropped: 0 for what is no number
Atoi(s) ==
    LET signed == s # <<>> /\ Head(s) \in {"+", "-"}
        ds     == IF signed THEN Tail(s) ELSE s
    IN  IF ds = <<>> \/ \E i \in 1..Len(ds) : ~IsDigit(ds[i]) THEN 0
        ELSE IF signed /\ Head(s) = "-" THEN 0 - Natoi(ds, 0)
        ELSE Natoi(ds, 0)

\* fmt's %+d for a one-digit vote
FmtVote(v) == IF v < 0 THEN <<"-", Digits[1 - v]>> ELSE <<"+", Digits[v + 1]>>

shortEmail(x) ==
    LET i == Index(x, "@") IN IF i > 0 THEN SubSeq(x, 1, i - 1) ELSE x

----------------------------------------------------------------------------
(* Accounts of the server *)

at        == <<"@">>
xorg      == <<"x", ".", "o", "r", "g">>
yorg      == <<"y", ".", "o", "r", "g">>
golangOrg == <<"@", "g", "o", "l", "a", "n", "g", ".", "o", "r", "g">>
googleCom == <<"@", "g", "o", "o", "g", "l", "e", ".", "c", "o", "m">>

alice == <<"a", "l", "i", "c", "e">>
bob   == <<"b", "o", "b">>
carol == <<"c", "a", "r", "o", "l">>
dave  == <<"d", "a", "v", "e">>

aliceX == [NumericID |-> 1, Email |-> alice \o at \o xorg]
aliceY == [NumericID |-> 2, Email |-> alice \o at \o yorg]
bobX   == [NumericID |-> 3, Email |-> bob \o at \o xorg]
carolX == [NumericID |-> 4, Email |-> carol \o at \o xorg]
carolG == [NumericID |-> 5, Email |-> carol \o golangOrg]
daveG  == [NumericID |-> 6, Email |-> dave \o googleCom]
daveX  == [NumericID |-> 7, Email |-> dave \o at \o xorg]

\* AccountInfo.Equal
AccountEqual(a, b) == a.NumericID = b.NumericID

----------------------------------------------------------------------------
(* Values shared by both documents *)

modeCL       == "modeCL"
modePatchSet == "modePatchSet"

\* a nil *CL
NoCL == [nil |-> TRUE]

\* F applied to the value of x: the value is computed once, before F is
Then(x, F(_)) == CHOOSE r \in {F(v) : v \in {x}} : TRUE

Max(S) == CHOOSE x \in S : \A y \in S : y <= x
Min(S) == CHOOSE x \in S : \A y \in S : x <= y

\* one entry of errbuf: the text of the Fprintf and its operand
Diag(m, a) == [msg |-> m, arg |-> a]

\* one mutating remote call: the client method, its operand, whether it succeeded
Call(op, a, ok) == [op |-> op, arg |-> a, ok |-> ok]

\* no ReviewInput
NoReview == [Labels |-> <<>>, Message |-> <<>>, Drafts |-> ""]

\* the bookkeeping of one run of writeCL or writePatchSet
NewRun == [errbuf |-> <<>>, calls |-> <<>>, lookups |-> <<>>]

AddDiag(rs, m, a) == [rs EXCEPT !.errbuf = Append(@, Diag(m, a))]

\* The remote end fails the k-th mutating call of a run when k is in env.fails,
\* and a call it cannot serve at all (forced).
CallOK(rs, env, forced) == ~forced /\ (Len(rs.calls) + 1) \notin env.fails

\* a mutating call and, when it fails, the diagnostic the code prints for it
DoCall(rs, env, op, a, forced, failmsg) ==
    LET ok  == CallOK(rs, env, forced)
        rs1 == [rs EXCEPT !.calls = Append(@, Call(op, a, ok))]
    IN  IF ok THEN rs1 ELSE AddDiag(rs1, failmsg, a)

\* what a run prints in place of a mutating call when the flag is set
DryTexts == {"add reviewer", "delete reviewer", "publish review", "add draft", "delete draft"}

\* the times the run has read *flagN: once before each call and each such print
Reads(rs) ==
    Len(rs.calls) + Cardinality({i \in 1..Len(rs.errbuf) : rs.errbuf[i].msg \in DryTexts})

Odd(n) == n % 2 = 1

\* *flagN as the run reads it now.  env.flagN is the flag when the run began;
\* env.nops holds k when the event loop of another window runs its Nop
\* command right before the k-th read of the run.
FlagN(rs, env) == env.flagN # Odd(Cardinality({k \in env.nops : k <= Reads(rs) + 1}))

\* *flagN after the run and the Nop commands that ran meanwhile
FlagAfter(env) == env.flagN # Odd(Cardinality(env.nops))

----------------------------------------------------------------------------
(* The change-summary document: showCL *)

\* A line of the change-summary document.  k is the class writeCL's scan puts
\* the trimmed line in: "blank", "hash" (# ...), "kv" (it holds a colon: key is
\* the text before the first colon, toks the fields after it) or "text" (no
\* colon: key names the text).
CLLine(k, key, toks) == [k |-> k, key |-> key, toks |-> toks]

BlankLine   == CLLine("blank", "", <<>>)
Placeholder == CLLine("text", "<optional comment here>", <<>>)
PatchSetHdr == CLLine("text", "Patch Set ", <<>>)

NonEmpty(t) == t # <<>>

RECURSIVE ReviewerToks(_, _)
ReviewerToks(ch, reviewers) ==
    IF reviewers = <<>> THEN <<>>
    ELSE LET r == Head(reviewers)
         IN  (IF AccountEqual(r, ch.Owner) THEN <<>> ELSE <<shortEmail(r.Email)>>)
             \o ReviewerToks(ch, Tail(reviewers))

RECURSIVE VoteToks(_)
VoteToks(allVotes) ==
    IF allVotes = <<>> THEN <<>>
    ELSE LET vote == Head(allVotes)
         IN  (IF vote.Value # 0 THEN <<shortEmail(vote.Email) \o FmtVote(vote.Value)>>
              ELSE <<>>)
             \o VoteToks(Tail(allVotes))

\* the label lines, in the order of LabelOrder (Go ranges over the map)
RECURSIVE LabelLines(_, _)
LabelLines(ch, names) ==
    IF names = <<>> THEN <<>>
    ELSE <<CLLine("kv", Head(names), SelectSeq(VoteToks(ch.Labels[Head(names)]), NonEmpty))>>
         \o LabelLines(ch, Tail(names))

\* The text showCL writes, up to the commit message of the current patch set
\* (nothing after the first "Patch Set " line is read back by writeCL unless
\* that line is removed; the commit message stands for the rest).
showCLText(ch, reviewers) ==
    <<CLLine("hash", "Project", <<>>), CLLine("hash", "Branch", <<>>),
      CLLine("hash", "Created", <<>>), CLLine("hash", "Updated", <<>>),
      CLLine("hash", "URL", <<>>), BlankLine,
      CLLine("kv", "Owner", <<shortEmail(ch.Owner.Email)>>),
      CLLine("kv", "Reviewers", SelectSeq(ReviewerToks(ch, reviewers), NonEmpty))>>
    \o LabelLines(ch, ch.LabelOrder)
    \o <<BlankLine, Placeholder, BlankLine, PatchSetHdr, BlankLine,
         CLLine("text", "commit message", <<>>)>>

\* the CL showCL returns
showCLSnapshot(g) ==
    [nil |-> FALSE, ChangeInfo |-> g.ChangeInfo, Reviewers |-> g.Reviewers,
     Base |-> 0, Patch |-> 0, Drafts |-> <<>>, Comments |-> <<>>]

----------------------------------------------------------------------------
(* Reconciling the change-summary document: writeCL *)

\* have[f]: the map is filled reviewer by reviewer, a later one overwriting
have(old, f) ==
    LET idx == {i \in 1..Len(old.Reviewers) :
                   \/ shortEmail(old.Reviewers[i].Email) = f
                   \/ old.Reviewers[i].Email = f}
    IN  IF idx = {} THEN <<>> ELSE old.Reviewers[Max(idx)].Email

\* the query, were the hint appended to two characters and the @
QueryTwoBefore(f) ==
    LET q == IF Contains(f, "@") THEN f ELSE f \o <<"@">>
    IN  IF Index(q, "@") = 3 THEN q \o <<"g", "o">> ELSE q

\* the query sent to SuggestReviewers for token f
Query(f) ==
    LET q == IF Contains(f, "@") THEN f ELSE f \o <<"@">>
    IN  IF Len(q) = 2 THEN q \o <<"g", "o">> ELSE q

Preferred(email) == HasSuffix(email, golangOrg) \/ HasSuffix(email, googleCom)

\* the loop over the candidates: n counts the preferred ones, best is the pick
RECURSIVE PickBest(_, _, _)
PickBest(acct, n, best) ==
    IF acct = <<>> THEN [n |-> n, best |-> best]
    ELSE LET r == Head(acct)
         IN  IF r.IsGroup THEN PickBest(Tail(acct), n, best)
             ELSE LET email == r.Email
                      b1    == IF best = <<>> THEN email ELSE best
                  IN  IF Preferred(email) THEN PickBest(Tail(acct), n + 1, email)
                      ELSE PickBest(Tail(acct), n, b1)

RECURSIVE CandidateEmails(_)
CandidateEmails(acct) ==
    IF acct = <<>> THEN <<>>
    ELSE (IF Head(acct).IsGroup THEN <<>> ELSE <<Head(acct).Email>>)
         \o CandidateEmails(Tail(acct))

\* the lookup is made again, were the length of the token not looked at
RetryAlways(r, f) == r.err1

\* the lookup is made a second time: err != nil && len(f) >= 3
Retry(r, f) == r.err1 /\ Len(f) >= 3

\* one token of the Reviewers line
ReviewerToken(old, f, kept, rs, env) ==
    IF have(old, f) # <<>> THEN [kept |-> kept \cup {have(old, f)}, rs |-> rs]
    ELSE
    LET q     == Query(f)
        r     == env.sug[q]
        retry == Retry(r, f)
        err   == IF retry THEN r.err2 ELSE r.err1
        acct  == IF err THEN <<>> ELSE r.acct
        rs1   == [rs EXCEPT !.lookups = @ \o (IF retry THEN <<q, q>> ELSE <<q>>)]
    IN  IF err \/ Len(acct) = 0
        THEN [kept |-> kept, rs |-> AddDiag(rs1, "unknown reviewer", f)]
        ELSE
        LET p == PickBest(acct, 0, <<>>)
        IN  IF p.n > 1 \/ (p.n = 0 /\ Len(acct) > 1)
            THEN [kept |-> kept,
                  rs   |-> AddDiag(rs1, "ambiguous reviewer", <<f, CandidateEmails(acct)>>)]
            ELSE IF FlagN(rs1, env)
            THEN [kept |-> kept \cup {p.best}, rs |-> AddDiag(rs1, "add reviewer", p.best)]
            ELSE LET rs2 == DoCall(rs1, env, "AddReviewer", p.best,
                                   p.best \notin env.accounts, "adding reviewer")
                 IN  IF rs2.calls[Len(rs2.calls)].ok
                     THEN [kept |-> kept \cup {p.best}, rs |-> rs2]
                     ELSE [kept |-> kept, rs |-> rs2]

RECURSIVE ReviewerTokens(_, _, _, _, _)
ReviewerTokens(old, fs, kept, rs, env) ==
    IF fs = <<>> THEN [kept |-> kept, rs |-> rs]
    ELSE LET s == ReviewerToken(old, Head(fs), kept, rs, env)
         IN  ReviewerTokens(old, Tail(fs), s.kept, s.rs, env)

\* the removal loop, were it to return at the first call that fails
RECURSIVE RemoveUntilFailure(_, _, _, _, _)
RemoveUntilFailure(old, i, kept, rs, env) ==
    IF i > Len(old.Reviewers) \/ \E k \in 1..Len(rs.calls) : ~rs.calls[k].ok THEN rs
    ELSE LET email == old.Reviewers[i].Email
         IN  IF email \in kept THEN RemoveUntilFailure(old, i + 1, kept, rs, env)
             ELSE IF FlagN(rs, env)
             THEN RemoveUntilFailure(old, i + 1, kept, AddDiag(rs, "delete reviewer", email), env)
             ELSE RemoveUntilFailure(old, i + 1, kept,
                                     DoCall(rs, env, "DeleteReviewer", email, FALSE,
                                            "removing reviewer"), env)

RECURSIVE RemoveReviewers(_, _, _, _, _)
RemoveReviewers(old, i, kept, rs, env) ==
    IF i > Len(old.Reviewers) THEN rs
    ELSE LET email == old.Reviewers[i].Email
         IN  IF email \in kept THEN RemoveReviewers(old, i + 1, kept, rs, env)
             ELSE IF FlagN(rs, env)
             THEN RemoveReviewers(old, i + 1, kept, AddDiag(rs, "delete reviewer", email), env)
             ELSE RemoveReviewers(old, i + 1, kept,
                                  DoCall(rs, env, "DeleteReviewer", email, FALSE,
                                         "removing reviewer"), env)

\* the Reviewers line with a kept set that starts empty
ReviewersLineNoOwner(old, value, rs, env) ==
    LET s == ReviewerTokens(old, value, {}, rs, env)
    IN  RemoveReviewers(old, 1, s.kept, s.rs, env)

\* the Reviewers line: resolve the tokens, then drop who is not kept
ReviewersLine(old, value, rs, env) ==
    LET s == ReviewerTokens(old, value, {old.ChangeInfo.Owner.Email}, rs, env)
    IN  RemoveReviewers(old, 1, s.kept, s.rs, env)

\* review.Labels[key] = v
SetLabel(labels, key, v) ==
    [n \in DOMAIN labels \cup {key} |-> IF n = key THEN v ELSE labels[n]]

\* a label line, were the scan of its fields to stop at the first permitted vote
RECURSIVE LabelLineFirst(_, _, _, _)
LabelLineFirst(allowed, key, votes, labels) ==
    IF votes = <<>> THEN labels
    ELSE IF \E j \in 1..Len(allowed) : Head(votes) = TrimSpace(allowed[j])
    THEN SetLabel(labels, key, Atoi(Head(votes)))
    ELSE LabelLineFirst(allowed, key, Tail(votes), labels)

\* a label line: every field that is a permitted vote is stored, in turn
RECURSIVE LabelLine(_, _, _, _)
LabelLine(allowed, key, votes, labels) ==
    IF votes = <<>> THEN labels
    ELSE LET vote == Head(votes)
             hit  == \E j \in 1..Len(allowed) : vote = TrimSpace(allowed[j])
         IN  LabelLine(allowed, key, Tail(votes),
                       IF hit THEN SetLabel(labels, key, Atoi(vote)) ELSE labels)

\* The scan of the summary lines.  st.off is the index of the line the scan
\* stopped at (the offset of its first byte), Len(lines) + 1 when it ran out.
RECURSIVE ScanSummary(_, _, _, _, _)
ScanSummary(old, lines, i, st, env) ==
    IF i > Len(lines) THEN [st EXCEPT !.off = i]
    ELSE
    LET line == lines[i]
    IN  IF line.k \in {"blank", "hash"} THEN ScanSummary(old, lines, i + 1, st, env)
        ELSE IF line.k # "kv" THEN [st EXCEPT !.off = i]
        ELSE IF line.key = "Owner" THEN ScanSummary(old, lines, i + 1, st, env)
        ELSE IF line.key = "Reviewers"
        THEN ScanSummary(old, lines, i + 1,
                         [st EXCEPT !.rs = ReviewersLine(old, line.toks, st.rs, env)], env)
        ELSE IF line.key \in DOMAIN old.ChangeInfo.Labels
        THEN ScanSummary(old, lines, i + 1,
                         [st EXCEPT !.labels =
                             LabelLine(old.ChangeInfo.PermittedLabels[line.key],
                                       line.key, line.toks, st.labels)], env)
        ELSE ScanSummary(old, lines, i + 1,
                         [st EXCEPT !.rs = AddDiag(st.rs, "unknown summary line", line.key),
                                    !.parseError = TRUE], env)

\* strings.Index(sdata, "\nPatch Set "): the first line, not the very first
\* of the text, that starts with "Patch Set "; 0 when there is none
Marker(lines) ==
    LET ms == {m \in 2..Len(lines) : lines[m] = PatchSetHdr}
    IN  IF ms = {} THEN 0 ELSE Min(ms)

RECURSIVE TrimBlankLines(_)
TrimBlankLines(ls) ==
    IF ls # <<>> /\ ls[Len(ls)].k = "blank" THEN TrimBlankLines(SubSeq(ls, 1, Len(ls) - 1))
    ELSE ls

\* the review message: sdata[off:i] trimmed, when i >= off
Comment(lines, off) ==
    LET m == Marker(lines)
        c == IF m > off THEN TrimBlankLines(SubSeq(lines, off, m - 1)) ELSE <<>>
    IN  IF c = <<Placeholder>> THEN <<>> ELSE c

\* the ReviewInput of the run
Review(labels, message) ==
    [Labels |-> labels, Message |-> message, Drafts |-> "PUBLISH_ALL_REVISIONS"]

\* the tail of writeCL, were it to publish whatever the dry-run flag says
PublishAlways(st, review, env) ==
    IF st.parseError THEN st.rs
    ELSE DoCall(st.rs, env, "SetReview", review, FALSE, "error publishing review")

\* the tail of writeCL: nothing is published after a parse error
Publish(st, review, env) ==
    IF st.parseError THEN st.rs
    ELSE IF FlagN(st.rs, env) THEN AddDiag(st.rs, "publish review", review)
    ELSE DoCall(st.rs, env, "SetReview", review, FALSE, "error publishing review")

\* the outcome, were the nil of the return after a parse error to stand
OutcomeNilAfterParse(rs, review, parseError) ==
    [errbuf |-> rs.errbuf, calls |-> rs.calls, lookups |-> rs.lookups,
     review |-> review, parseError |-> parseError,
     xerr |-> ~parseError /\ rs.errbuf # <<>>]

\* what a run of writeCL did, and the error it returns (errbuf is not empty)
Outcome(rs, review, parseError) ==
    [errbuf |-> rs.errbuf, calls |-> rs.calls, lookups |-> rs.lookups,
     review |-> review, parseError |-> parseError, xerr |-> rs.errbuf # <<>>]

Scanned(st, review, env) == Outcome(Publish(st, review, env), review, st.parseError)

ReviewOf(st, updated) == Review(st.labels, Comment(updated, st.off))

Reconciled(st, updated, env) == Scanned(st, ReviewOf(st, updated), env)

writeCL(old, updated, env) ==
    Reconciled(ScanSummary(old, updated, 1,
                           [rs |-> NewRun, labels |-> <<>>, parseError |-> FALSE,
                            off |-> 0], env),
               updated, env)

----------------------------------------------------------------------------
(* Unified diffs: formatUnifiedDiff *)

\* gerrit.DiffContent: the lines of both sides, of the old side, of the new side
Chunk(ab, a, b) == [AB |-> ab, A |-> a, B |-> b]

maxContext == 3

\* A Line of the output.  The hunk header, whose text the code formats from
\* four numbers, carries them in oldStart, oldLen, newStart, newLen.
Line(prefix, text, old, new) ==
    [Prefix |-> prefix, Text |-> text, Old |-> old, New |-> new,
     oldStart |-> 0, oldLen |-> 0, newStart |-> 0, newLen |-> 0]

HunkHeader(oldStart, oldLen, newStart, newLen) ==
    [Prefix |-> "", Text |-> "@@", Old |-> 0, New |-> 0,
     oldStart |-> oldStart, oldLen |-> oldLen, newStart |-> newStart, newLen |-> newLen]

\* the common lines, the first of them numbered (old, new)
CommonLines(lines, old, new) ==
    [k \in 1..Len(lines) |-> Line(" ", lines[k], old + k - 1, new + k - 1)]

RemovedLines(lines, old) == [k \in 1..Len(lines) |-> Line("-", lines[k], old + k - 1, 0)]

AddedLines(lines, new) == [k \in 1..Len(lines) |-> Line("+", lines[k], 0, new + k - 1)]

\* lines[skip:] and lines[:n]
DropLines(lines, skip) == SubSeq(lines, skip + 1, Len(lines))

\* lines[:n], were the cut left out
FirstLinesAll(lines, n) == lines

FirstLines(lines, n) == SubSeq(lines, 1, n)

\* the number of chunks the loop "Collect a run" walks over, starting from i
RECURSIVE CollectRun(_, _)
CollectRun(content, i) ==
    IF i < Len(content) /\ Len(content[i + 1].AB) <= 2 * maxContext
    THEN CollectRun(content, i + 1)
    ELSE i

\* the run, given the number i of chunks collected
RunOf(content, i) ==
    IF i < Len(content) /\ Len(content[i + 1].AB) > 2 * maxContext
    THEN SubSeq(content, 1, i + 1)
    ELSE SubSeq(content, 1, i)

\* the first chunk of a run, were the start of the hunk left where it was
FormatSkipStart(lines, skip, f) ==
    [f EXCEPT !.oldLine = @ + Len(lines), !.newLine = @ + Len(lines),
              !.chunk = @ \o CommonLines(DropLines(lines, skip),
                                         f.oldLine + skip, f.newLine + skip)]

\* the first chunk of a run: all but its last lines are skipped
FormatSkip(lines, skip, f) ==
    [f EXCEPT !.oldStart = @ + skip, !.newStart = @ + skip,
              !.oldLine = @ + Len(lines), !.newLine = @ + Len(lines),
              !.chunk = @ \o CommonLines(DropLines(lines, skip),
                                         f.oldLine + skip, f.newLine + skip)]

\* the loop over the common lines that are kept
FormatLines(lines, f) ==
    [f EXCEPT !.oldLine = @ + Len(lines), !.newLine = @ + Len(lines),
              !.chunk = @ \o CommonLines(lines, f.oldLine, f.newLine)]

\* one chunk of a run, were the last chunk of a run not cut to its first lines
FormatCommonUncut(c, first, lastOfRun, f) ==
    IF first /\ Len(c.AB) > maxContext
    THEN FormatSkip(c.AB, Len(c.AB) - maxContext, f)
    ELSE FormatLines(c.AB, f)

\* one chunk of a run; f holds oldLine, newLine, oldStart, newStart and chunk
FormatCommon(c, first, lastOfRun, f) ==
    IF first /\ Len(c.AB) > maxContext
    THEN FormatSkip(c.AB, Len(c.AB) - maxContext, f)
    ELSE IF lastOfRun /\ Len(c.AB) > maxContext
    THEN FormatLines(FirstLines(c.AB, maxContext), f)
    ELSE FormatLines(c.AB, f)

FormatReplace(c, f) ==
    [f EXCEPT !.oldLine = @ + Len(c.A), !.newLine = @ + Len(c.B),
              !.chunk = @ \o RemovedLines(c.A, f.oldLine) \o AddedLines(c.B, f.newLine)]

RECURSIVE FormatRun(_, _, _)
FormatRun(run, j, f) ==
    IF j > Len(run) THEN f
    ELSE FormatRun(run, j + 1,
                   IF Len(run[j].AB) > 0 THEN FormatCommon(run[j], j = 1, j = Len(run), f)
                   ELSE FormatReplace(run[j], f))

\* the hunk of a formatted run: its header, then its lines
Hunk(f) ==
    <<HunkHeader(f.oldStart, f.oldLine - f.oldStart, f.newStart, f.newLine - f.newStart)>>
    \o f.chunk

\* the counters left where the run ended
RewindNever(run, n) == n

\* "Set up correctly for next loop over content"
Rewind(run, n) == IF Len(run[Len(run)].AB) > maxContext THEN n - maxContext ELSE n

RECURSIVE FormatContent(_, _, _, _)

\* the body of the outer loop once the run is formatted
FormatNext(run, rest, f, out) ==
    FormatContent(rest, Rewind(run, f.oldLine), Rewind(run, f.newLine), out \o Hunk(f))

FormatHunk(run, rest, oldLine, newLine, out) ==
    IF rest = <<>> /\ Len(run) = 1 /\ Len(run[1].AB) > 0 THEN out
    ELSE FormatNext(run, rest,
                    FormatRun(run, 1, [oldLine |-> oldLine, newLine |-> newLine,
                                       oldStart |-> oldLine, newStart |-> newLine,
                                       chunk |-> <<>>]),
                    out)

\* content[i:], were the last chunk collected left in the content as well
RestWithLast(content, i) == SubSeq(content, i, Len(content))

\* content = content[i:]
Rest(content, i) == SubSeq(content, i + 1, Len(content))

FormatSplit(content, i, oldLine, newLine, out) ==
    FormatHunk(RunOf(content, i), Rest(content, i), oldLine, newLine, out)

FormatContent(content, oldLine, newLine, out) ==
    IF content = <<>> THEN out
    ELSE FormatSplit(content, CollectRun(content, IF Len(content[1].AB) > 0 THEN 1 ELSE 0),
                     oldLine, newLine, out)

formatUnifiedDiff(diff) ==
    FormatContent(diff.Content, 1, 1,
                  [k \in 1..Len(diff.DiffHeader) |-> Line("", diff.DiffHeader[k], 0, 0)])

\* The same function one turn of its outer loop at a time: pc is "loop" at
\* the test len(content) > 0, "done" once it has returned, "idle" when no
\* call is followed.
Formatting(pc, input, content, oldLine, newLine, out) ==
    [pc |-> pc, input |-> input, content |-> content, oldLine |-> oldLine,
     newLine |-> newLine, out |-> out]

NoFormat == Formatting("idle", <<>>, <<>>, 0, 0, <<>>)

\* i when the run is collected
Collected(content) == CollectRun(content, IF Len(content[1].AB) > 0 THEN 1 ELSE 0)

\* "Do not emit hunk with nothing but common lines at end of file."
AtEnd(run, rest) == rest = <<>> /\ Len(run) = 1 /\ Len(run[1].AB) > 0

\* the run formatted from where the counters stand
Formatted(run, oldLine, newLine) ==
    FormatRun(run, 1, [oldLine |-> oldLine, newLine |-> newLine,
                       oldStart |-> oldLine, newStart |-> newLine, chunk |-> <<>>])

\* the locals after a turn that emits the hunk of the run
Emitted(v, run, rest, f) ==
    Formatting("loop", v.input, rest, Rewind(run, f.oldLine), Rewind(run, f.newLine),
               v.out \o Hunk(f))

\* the locals after one turn of the loop that collects run and leaves rest
Turned(v, run, rest) ==
    IF AtEnd(run, rest) THEN [v EXCEPT !.pc = "done", !.content = rest]
    ELSE Emitted(v, run, rest, Formatted(run, v.oldLine, v.newLine))

----------------------------------------------------------------------------
(* The patch-set document: showPatchSet *)

\* gerrit.CommentInfo.  An ID is a number, 0 standing for the empty string;
\* Author is "" for a nil Author (a draft); Message is the sequence of the
\* lines of the message.
CommentInfo(id, path, side, line, patchSet, inReplyTo, message, updated, author) ==
    [ID |-> id, Path |-> path, Side |-> side, Line |-> line, PatchSet |-> patchSet,
     InReplyTo |-> inReplyTo, Message |-> message, Updated |-> updated,
     Author |-> author]

IsDraft(c) == c.Author = ""

\* commentHeader: who and when
commentHeader(c) ==
    [who |-> IF c.Author = "" THEN "draft xxx" ELSE c.Author, time |-> c.Updated]

\* A line of the patch-set document.  k is the class writePatchSet's tests put
\* the line in: "CL" (it starts with "CL "), "File" (s is the path), "Diff"
\* (it starts with DiffPrefix; s is how the rest starts: "@@" for a hunk header
\* with old start a and new start b, "+", "-", " " or a header word), "Hdr"
\* (it matches inlineCommentRE: s is who, a is when), "Tab" (it starts with a
\* tab; s is the text), "Blank", and "Text" (anything else; s is the text).
PSLine(k, str, a, b) == [k |-> k, s |-> str, a |-> a, b |-> b]

BlankPS == PSLine("Blank", "", 0, 0)

\* the lines a message is written as
MessageLines(message, k) ==
    [j \in 1..Len(message) |->
        IF message[j] = "" THEN BlankPS ELSE PSLine(k, message[j], 0, 0)]

\* the line of the document for a line of the unified diff
DiffLine(l) ==
    PSLine("Diff", IF l.Prefix = "" THEN l.Text ELSE l.Prefix, l.oldStart, l.newStart)

\* msgsByDisplay.Less
Less(x, y) ==
    IF x.Line # y.Line THEN x.Line < y.Line
    ELSE IF IsDraft(x) # IsDraft(y) THEN IsDraft(y)
    ELSE x.Updated < y.Updated

\* sort.Sort on a short list: an insertion sort
RECURSIVE InsertSorted(_, _)
InsertSorted(sorted, m) ==
    IF sorted # <<>> /\ Less(m, sorted[Len(sorted)])
    THEN Append(InsertSorted(SubSeq(sorted, 1, Len(sorted) - 1), m), sorted[Len(sorted)])
    ELSE Append(sorted, m)

RECURSIVE SortMsgs(_, _)
SortMsgs(list, sorted) ==
    IF list = <<>> THEN sorted ELSE SortMsgs(Tail(list), InsertSorted(sorted, Head(list)))

IsParent(m) == m.Side = "PARENT"

NotParent(m) == m.Side # "PARENT"

\* printMsg: p holds the document written so far (doc), the drafts recorded
\* (drafts), the pending separator (sep) and the messages not yet printed
PrintDraft(p, m, isNew, base, patch) ==
    [p EXCEPT !.doc = @ \o (IF p.sep THEN <<BlankPS>> ELSE <<>>)
                        \o MessageLines(m.Message, "Text") \o <<BlankPS>>,
              !.drafts = Append(@, [m EXCEPT !.Side = IF isNew \/ base # 0 THEN ""
                                                       ELSE "PARENT",
                                             !.PatchSet = IF isNew THEN patch ELSE base]),
              !.sep = FALSE]

PrintComment(p, m) ==
    [p EXCEPT !.doc = @ \o (IF p.sep THEN <<BlankPS>> ELSE <<>>)
                        \o <<PSLine("Hdr", commentHeader(m).who, commentHeader(m).time, 0),
                             BlankPS>>
                        \o MessageLines(m.Message, "Tab") \o <<BlankPS>>,
              !.sep = FALSE]

printMsg(p, m, isNew, base, patch) ==
    IF IsDraft(m) THEN PrintDraft(p, m, isNew, base, patch) ELSE PrintComment(p, m)

\* "for len(oldMsgs) > 0 && oldMsgs[0].Line <= n": print and drop them
RECURSIVE PrintOld(_, _, _, _)
PrintOld(p, n, base, patch) ==
    IF p.oldMsgs # <<>> /\ Head(p.oldMsgs).Line <= n
    THEN PrintOld([printMsg(p, Head(p.oldMsgs), FALSE, base, patch)
                     EXCEPT !.oldMsgs = Tail(@)], n, base, patch)
    ELSE p

RECURSIVE PrintNew(_, _, _, _)
PrintNew(p, n, base, patch) ==
    IF p.newMsgs # <<>> /\ Head(p.newMsgs).Line <= n
    THEN PrintNew([printMsg(p, Head(p.newMsgs), TRUE, base, patch)
                     EXCEPT !.newMsgs = Tail(@)], n, base, patch)
    ELSE p

\* "for len(oldMsgs) > 0 && oldMsgs[0].Line == 0": the file-level messages
RECURSIVE PrintTopOld(_, _, _)
PrintTopOld(p, base, patch) ==
    IF p.oldMsgs # <<>> /\ Head(p.oldMsgs).Line = 0
    THEN PrintTopOld([printMsg(p, Head(p.oldMsgs), FALSE, base, patch)
                        EXCEPT !.oldMsgs = Tail(@)], base, patch)
    ELSE p

RECURSIVE PrintTopNew(_, _, _)
PrintTopNew(p, base, patch) ==
    IF p.newMsgs # <<>> /\ Head(p.newMsgs).Line = 0
    THEN PrintTopNew([printMsg(p, Head(p.newMsgs), TRUE, base, patch)
                        EXCEPT !.newMsgs = Tail(@)], base, patch)
    ELSE p

PrintTop(p, base, patch) == PrintTopNew(PrintTopOld(p, base, patch), base, patch)

PrintAt(p, old, new, base, patch) ==
    PrintNew(PrintOld(p, old, base, patch), new, base, patch)

\* the loop over the lines of the unified diff
RECURSIVE PrintDiff(_, _, _, _)
PrintDiff(p, udiff, base, patch) ==
    IF udiff = <<>> THEN p
    ELSE Then(PrintAt([p EXCEPT !.doc = Append(@, DiffLine(Head(udiff))),
                                !.sep = TRUE],
                      Head(udiff).Old, Head(udiff).New, base, patch),
              LAMBDA q : PrintDiff(q, Tail(udiff), base, patch))

LargestLine == 1000

\* what is left after the last line: the old ones, then the new ones
PrintRest(p, base, patch) == PrintAt(p, LargestLine, LargestLine, base, patch)

\* fmt.Fprint(w, sep)
EndFile(p) ==
    [doc |-> p.doc \o (IF p.sep THEN <<BlankPS>> ELSE <<>>), drafts |-> p.drafts]

\* one file of the document, its diff fetched
ShowDiff(p, udiff, base, patch) ==
    EndFile(PrintRest(PrintDiff(PrintTop(p, base, patch), udiff, base, patch),
                      base, patch))

ShowError(p) == [doc |-> Append(p.doc, PSLine("Text", "ERROR:", 0, 0)), drafts |-> p.drafts]

\* ChangeInfo.Revisions of the change: two patch sets
Revisions == [r \in {"rev1", "rev2"} |-> [PatchSetNumber |-> IF r = "rev1" THEN 1 ELSE 2]]

\* CL.patchSetRevID, and the same search in showPatchSet
patchSetRevID(revisions, id) ==
    IF \E r \in DOMAIN revisions : revisions[r].PatchSetNumber = id
    THEN CHOOSE r \in DOMAIN revisions : revisions[r].PatchSetNumber = id
    ELSE ""

\* What the server lists for a revision and a file.  The server holds each
\* comment as [Rev, File, c]; a listing is a map keyed by the file path.
RECURSIVE Listing(_, _, _, _)
Listing(held, rev, file, withPath) ==
    IF held = <<>> THEN <<>>
    ELSE (IF Head(held).Rev = rev /\ Head(held).File = file
          THEN <<[Head(held).c EXCEPT !.Path = IF withPath THEN file ELSE "",
                                      !.PatchSet = 0]>>
          ELSE <<>>)
         \o Listing(Tail(held), rev, file, withPath)

ListRevisionComments(g, rev, file) == Listing(g.Comments, rev, file, g.listPath)

ListRevisionDrafts(g, rev, file) == Listing(g.Drafts, rev, file, g.listPath)

SetParent(list) == [j \in 1..Len(list) |-> [list[j] EXCEPT !.Side = "PARENT"]]

\* msgs[file] once showPatchSet has gathered the comments and the drafts
Msgs(g, file, baseID, patchID) ==
    IF baseID = ""
    THEN ListRevisionComments(g, patchID, file) \o ListRevisionDrafts(g, patchID, file)
    ELSE SelectSeq(ListRevisionComments(g, patchID, file)
                   \o ListRevisionDrafts(g, patchID, file), NotParent)
         \o SetParent(ListRevisionComments(g, baseID, file)
                      \o ListRevisionDrafts(g, patchID, file))

\* the state of printMsg's closure at the start of a file
StartFile(acc, file, msgs) ==
    [doc |-> acc.doc \o <<PSLine("File", file, 0, 0), BlankPS>>, drafts |-> acc.drafts,
     sep |-> FALSE,
     oldMsgs |-> SortMsgs(SelectSeq(msgs, IsParent), <<>>),
     newMsgs |-> SortMsgs(SelectSeq(msgs, NotParent), <<>>)]

ShowFile(p, diff, base, patch) ==
    IF diff.ok THEN ShowDiff(p, formatUnifiedDiff(diff), base, patch) ELSE ShowError(p)

RECURSIVE ShowFiles(_, _, _, _, _)
ShowFiles(g, files, acc, base, patch) ==
    IF files = <<>> THEN acc
    ELSE Then(ShowFile(StartFile(acc, Head(files),
                                 Msgs(g, Head(files),
                                      patchSetRevID(g.ChangeInfo.Revisions, base),
                                      patchSetRevID(g.ChangeInfo.Revisions, patch))),
                       g.Diff[Head(files)], base, patch),
              LAMBDA shown : ShowFiles(g, Tail(files), shown, base, patch))

\* the paths comments can be attached to
AllFiles == {"a.go", "b.go"}

\* the CL showPatchSet returns and the text it writes
Shown(g, acc, base, patch) ==
    [cl |-> [nil |-> FALSE, ChangeInfo |-> g.ChangeInfo, Reviewers |-> <<>>,
             Base |-> base, Patch |-> patch, Drafts |-> acc.drafts,
             Comments |-> [f \in AllFiles |->
                              Msgs(g, f, patchSetRevID(g.ChangeInfo.Revisions, base),
                                   patchSetRevID(g.ChangeInfo.Revisions, patch))]],
     body |-> acc.doc]

showPatchSet(g, base, patch) ==
    Shown(g, ShowFiles(g, g.Files,
                       [doc |-> <<PSLine("CL", "CL", base, patch), BlankPS>>,
                        drafts |-> <<>>], base, patch),
          base, patch)

----------------------------------------------------------------------------
(* Reconciling the patch-set document: writePatchSet *)

\* the ID of the comment findComment returns, 0 for nil
RECURSIVE FindIn(_, _, _)
FindIn(list, hdr, line) ==
    IF list = <<>> THEN 0
    ELSE IF Head(list).Line = line /\ commentHeader(Head(list)) = hdr THEN Head(list).ID
    ELSE FindIn(Tail(list), hdr, line)

findComment(old, hdr, file, side, lineOld, lineNew) ==
    FindIn(IF file \in DOMAIN old.Comments THEN old.Comments[file] ELSE <<>>,
           hdr,
           Max({0, IF side < 0 THEN lineOld - 1 ELSE lineNew - 1}))

isCont(line) == line.k \in {"Tab", "Blank"}

isDraftLine(line) == line.k \notin {"File", "Diff", "Hdr"}

\* the index of the last of the lines that follow i and satisfy the test
RECURSIVE SkipCont(_, _)
SkipCont(lines, i) ==
    IF i + 1 <= Len(lines) /\ isCont(lines[i + 1]) THEN SkipCont(lines, i + 1) ELSE i

RECURSIVE SkipDraft(_, _)
SkipDraft(lines, i) ==
    IF i + 1 <= Len(lines) /\ isDraftLine(lines[i + 1]) THEN SkipDraft(lines, i + 1) ELSE i

\* strings.Join(lines[start:i+1], ""), line by line
BlockMessage(lines, start, end) == [j \in 1..(end - start + 1) |-> lines[start + j - 1].s]

\* a diff line: the hunk header sets the counters, the others advance them
DiffStep(st, line) ==
    IF line.s = "@@"
    THEN [st EXCEPT !.top = FALSE, !.inReplyTo = 0, !.lineOld = line.a, !.lineNew = line.b]
    ELSE IF st.lineNew >= 1 /\ st.lineOld >= 1
    THEN IF line.s \in {"+", "+++"}
         THEN [st EXCEPT !.top = FALSE, !.inReplyTo = 0, !.lineNew = @ + 1, !.side = 1]
         ELSE IF line.s \in {"-", "---"}
         THEN [st EXCEPT !.top = FALSE, !.inReplyTo = 0, !.lineOld = @ + 1, !.side = -1]
         ELSE [st EXCEPT !.top = FALSE, !.inReplyTo = 0, !.lineNew = @ + 1,
                         !.lineOld = @ + 1, !.side = 0]
    ELSE [st EXCEPT !.top = FALSE, !.inReplyTo = 0]

\* the draft gathered from a block of text, before it is matched
NewDraft(old, st, message) ==
    IF st.top
    THEN CommentInfo(0, st.currentFile, "", 0, 0, st.inReplyTo, message, 0, "")
    ELSE IF st.side < 0
    THEN CommentInfo(0, st.currentFile, IF old.Base = 0 THEN "PARENT" ELSE "",
                     st.lineOld - 1, old.Base, st.inReplyTo, message, 0, "")
    ELSE CommentInfo(0, st.currentFile, "", st.lineNew - 1, old.Patch, st.inReplyTo,
                     message, 0, "")

\* the fields writePatchSet compares
SameDraft(c0, c) ==
    /\ c0.Path = c.Path
    /\ c0.Side = c.Side
    /\ c0.Line = c.Line
    /\ c0.PatchSet = c.PatchSet
    /\ c0.InReplyTo = c.InReplyTo

\* the entries of the drafts map that the loop matches to c
Matched(old, live, c) == {i \in live : SameDraft(old.Drafts[i], c)}

\* Every match overwrites c.ID: the one the range over the map visits last
\* stays, and the map is visited in no fixed order.
MatchedID(old, m, pick) ==
    IF m = {} THEN 0 ELSE old.Drafts[IF pick = "min" THEN Min(m) ELSE Max(m)].ID

\* a call on a revision the change does not have cannot be served
SendDraft(old, rs, c, env) ==
    IF FlagN(rs, env) THEN AddDiag(rs, "add draft", c)
    ELSE DoCall(rs, env, "CreateDraft",
                [rev |-> patchSetRevID(old.ChangeInfo.Revisions, c.PatchSet),
                 c |-> [c EXCEPT !.PatchSet = 0]],
                patchSetRevID(old.ChangeInfo.Revisions, c.PatchSet) = "",
                "saving draft")

Matching(old, st, c, m, env) ==
    [st EXCEPT !.live = @ \ m,
               !.rs = SendDraft(old, st.rs, [c EXCEPT !.ID = MatchedID(old, m, env.pick)], env)]

SaveDraft(old, st, c, env) == Matching(old, st, c, Matched(old, st.live, c), env)

\* a block of free text
DraftBlock(old, st, message, env) ==
    IF st.currentFile = ""
    THEN [st EXCEPT !.rs = AddDiag(@, "unexpected comment before first file", message)]
    ELSE SaveDraft(old, st, NewDraft(old, st, message), env)

\* one turn of the loop over the lines: the parser's state after line i, and
\* the index of the line the loop looks at next
Turn(i, st) == [i |-> i, st |-> st]

\* a comment header, were a miss written to errbuf like the other complaints
CommentHeaderLineLogged(old, lines, i, st, found) ==
    Turn(SkipCont(lines, i) + 1,
         [st EXCEPT !.inReplyTo = found, !.rs.lookups = Append(@, found),
                    !.rs.errbuf = IF found = 0 THEN Append(@, Diag("CANNOT FIND", lines[i].s))
                                  ELSE @])

CommentHeaderLine(old, lines, i, st, found) ==
    Turn(SkipCont(lines, i) + 1,
         [st EXCEPT !.inReplyTo = found, !.rs.lookups = Append(@, found)])

ScanLine(old, lines, i, st, env) ==
    IF i = 1 /\ lines[i].k = "CL" THEN Turn(i + 1, st)
    ELSE IF lines[i].k = "File"
    THEN Turn(i + 1, [st EXCEPT !.currentFile = lines[i].s, !.lineNew = -1,
                                !.lineOld = -1, !.top = TRUE])
    ELSE IF lines[i].k = "Diff" THEN Turn(i + 1, DiffStep(st, lines[i]))
    ELSE IF lines[i].k = "Hdr"
    THEN CommentHeaderLine(old, lines, i, st,
                           findComment(old, [who |-> lines[i].s, time |-> lines[i].a],
                                       st.currentFile, st.side, st.lineOld, st.lineNew))
    ELSE IF lines[i].k = "Blank" THEN Turn(i + 1, st)
    ELSE Turn(SkipDraft(lines, i) + 1,
              DraftBlock(old, st, BlockMessage(lines, i, SkipDraft(lines, i)), env))

\* the loop over the lines of the document
RECURSIVE ScanPatchSet(_, _, _, _, _)
ScanPatchSet(old, lines, i, st, env) ==
    IF i > Len(lines) THEN st
    ELSE Then(ScanLine(old, lines, i, st, env),
              LAMBDA t : ScanPatchSet(old, lines, t.i, t.st, env))

\* the drafts map as the first loop leaves it: a later draft replaces an
\* earlier one of the same ID
DraftsMap(old) ==
    {i \in 1..Len(old.Drafts) :
        \A j \in (i + 1)..Len(old.Drafts) : old.Drafts[j].ID # old.Drafts[i].ID}

\* the last loop: the drafts still in the map are deleted
RECURSIVE DeleteDrafts(_, _, _, _, _)
DeleteDrafts(old, i, live, rs, env) ==
    IF i > Len(old.Drafts) THEN rs
    ELSE IF i \notin live THEN DeleteDrafts(old, i + 1, live, rs, env)
    ELSE IF FlagN(rs, env)
    THEN DeleteDrafts(old, i + 1, live, AddDiag(rs, "delete draft", old.Drafts[i]), env)
    ELSE DeleteDrafts(old, i + 1, live,
                      DoCall(rs, env, "DeleteDraft",
                             [rev |-> patchSetRevID(old.ChangeInfo.Revisions,
                                                    old.Drafts[i].PatchSet),
                              c |-> old.Drafts[i]],
                             <<patchSetRevID(old.ChangeInfo.Revisions,
                                             old.Drafts[i].PatchSet),
                               old.Drafts[i].ID>> \notin env.held,
                             "deleting draft"),
                      env)

Deleted(old, st, env) == DeleteDrafts(old, 1, st.live, st.rs, env)

writePatchSet(old, updated, env) ==
    Outcome(Deleted(old,
                    ScanPatchSet(old, updated, 1,
                                 [currentFile |-> "", side |-> 0, top |-> FALSE,
                                  lineNew |-> -1, lineOld |-> -1, inReplyTo |-> 0,
                                  live |-> DraftsMap(old), rs |-> NewRun], env),
                    env),
            NoReview, FALSE)

----------------------------------------------------------------------------
(* The remote change *)

\* the accounts the server knows
Directory == {aliceX, aliceY, bobX, carolX, carolG, daveG, daveX}

KnownEmails == {a.Email : a \in Directory}

AccountOf(email) == CHOOSE a \in Directory : a.Email = email

Vote(a, v) == [NumericID |-> a.NumericID, Email |-> a.Email, Value |-> v]

\* the votes Gerrit permits on Code-Review, as it spells them
PermittedCodeReview == << <<"-", "1">>, <<" ", "0">>, <<"+", "1">> >>

\* gerrit.ChangeInfo, with the fields the documents read
ChangeInfoOf(owner, votes) ==
    [ID |-> "go~master~I0", Owner |-> owner,
     Labels |-> [n \in {"Code-Review"} |-> votes],
     LabelOrder |-> <<"Code-Review">>,
     PermittedLabels |-> [n \in {"Code-Review"} |-> PermittedCodeReview],
     CurrentRevision |-> "rev2", Revisions |-> Revisions]

\* The server's answer to AddReviewer and DeleteReviewer.  What SetReview,
\* Submit and Abandon change on the server is not read back by any document
\* line modelled here.
ApplyCLCall(g, c) ==
    IF ~c.ok THEN g
    ELSE IF c.op = "AddReviewer"
    THEN IF \E i \in 1..Len(g.Reviewers) : g.Reviewers[i].Email = c.arg THEN g
         ELSE [g EXCEPT !.Reviewers = Append(@, AccountOf(c.arg))]
    ELSE IF c.op = "DeleteReviewer"
    THEN [g EXCEPT !.Reviewers = SelectSeq(@, LAMBDA r : r.Email # c.arg)]
    ELSE g

RECURSIVE ApplyCLCalls(_, _)
ApplyCLCalls(g, calls) ==
    IF calls = <<>> THEN g ELSE ApplyCLCalls(ApplyCLCall(g, Head(calls)), Tail(calls))

\* a comment as the server holds it: on a revision, in a file
Held(rev, file, c) == [Rev |-> rev, File |-> file, c |-> c]

RECURSIVE TrimMessage(_)
TrimMessage(m) ==
    IF m # <<>> /\ Head(m) = "" THEN TrimMessage(Tail(m))
    ELSE IF m # <<>> /\ m[Len(m)] = "" THEN TrimMessage(SubSeq(m, 1, Len(m) - 1))
    ELSE m

\* the draft the server keeps for a CreateDraft: the message trimmed, the time
\* of the call, the ID of the input when it names a draft, else a new one
Stored(g, a) ==
    Held(a.rev, a.c.Path,
         [a.c EXCEPT !.ID = IF a.c.ID # 0 THEN a.c.ID ELSE g.clock,
                     !.Message = TrimMessage(a.c.Message),
                     !.Updated = g.clock])

HasDraft(g, id) == \E i \in 1..Len(g.Drafts) : g.Drafts[i].c.ID = id

\* The server's answer to CreateDraft and DeleteDraft: a draft sent with the
\* ID of a draft replaces it, a draft sent without one is added.
ApplyPSCall(g, c) ==
    IF ~c.ok THEN g
    ELSE IF c.op = "CreateDraft"
    THEN IF HasDraft(g, c.arg.c.ID)
         THEN [g EXCEPT !.clock = @ + 1,
                        !.Drafts = [i \in 1..Len(@) |->
                                       IF @[i].c.ID = c.arg.c.ID THEN Stored(g, c.arg)
                                       ELSE @[i]]]
         ELSE [g EXCEPT !.clock = @ + 1, !.Drafts = Append(@, Stored(g, c.arg))]
    ELSE IF c.op = "DeleteDraft"
    THEN [g EXCEPT !.Drafts = SelectSeq(@, LAMBDA d : d.c.ID # c.arg.c.ID)]
    ELSE g

RECURSIVE ApplyPSCalls(_, _)
ApplyPSCalls(g, calls) ==
    IF calls = <<>> THEN g ELSE ApplyPSCalls(ApplyPSCall(g, Head(calls)), Tail(calls))

\* the drafts the server holds, by revision and ID
HeldDrafts(g) == {<<g.Drafts[i].Rev, g.Drafts[i].c.ID>> : i \in 1..Len(g.Drafts)}

----------------------------------------------------------------------------
(* Bounds and input sets *)

\* edits the reviewer makes to a window body in one behaviour; the edits and
\* the Nop commands of a behaviour come before its first Put
MaxEdits == 1

\* Put commands in one behaviour
MaxPuts == 2

\* the remote end may fail any of the first MaxFail mutating calls of a run
MaxFail == 2

FailSets == SUBSET (1..MaxFail)

\* the reviewers the change may start with (the owner may be among them)
ReviewerLists == {<<>>, <<aliceX>>, <<aliceX, bobX>>, <<aliceX, aliceY>>}

VoteLists == {<<>>, <<Vote(aliceX, 1), Vote(bobX, 0)>>}

\* what the reviewer may type after "Reviewers:"
ReviewerFields ==
    {<<>>, <<alice>>, <<alice, carol>>, <<carol, dave>>, <<<<"x">>>>,
     <<<<"a", "b">>>>, <<alice \o at \o xorg>>}

\* what the reviewer may type after "Code-Review:"
VoteFields ==
    {<<>>, << <<"+", "1">> >>, << <<"+", "7">>, <<"+", "1">> >>,
     << <<"+", "1">>, <<"-", "1">> >>, << <<"0">> >>, << <<"+", "7">> >>}

\* lines the reviewer may type into the change-summary document
TypedCLLines == {CLLine("kv", "Bogus", <<>>), CLLine("text", "LGTM", <<>>)}

Account(a) == [IsGroup |-> FALSE, Email |-> a.Email]
Group      == [IsGroup |-> TRUE, Email |-> <<>>]

Answer(e1, e2, acct) == [err1 |-> e1, err2 |-> e2, acct |-> acct]

\* the queries the typed tokens lead to
qAlice == alice \o at
qCarol == carol \o at
qDave  == dave \o at
qX     == <<"x", "@", "g", "o">>
qFull  == alice \o at \o xorg
qAB    == <<"a", "b", "@">>

\* the queries of the tokens, of the short ones with and without the hint
AllQueries ==
    {qAlice, qCarol, qDave, qX, qFull, qAB, <<"x", "@">>, <<"a", "b", "@", "g", "o">>}

\* a full address is answered with its account when the service answers at all
Oracle(a, c, d, x) ==
    [q \in AllQueries |->
        IF q = qAlice THEN a ELSE IF q = qCarol THEN c ELSE IF q = qDave THEN d
        ELSE IF q = qX THEN x
        ELSE IF a.err1 THEN a ELSE Answer(FALSE, FALSE, <<Account(aliceX)>>)]

\* What SuggestReviewers may answer: each oracle is one behaviour of the
\* server's suggestion service.  An answer is an error on the first call and
\* on the retry, an error on the first call only, or a candidate list.
Oracles ==
    {Oracle(Answer(FALSE, FALSE, <<Account(aliceX)>>),
            Answer(FALSE, FALSE, <<Account(carolX)>>),
            Answer(FALSE, FALSE, <<Account(daveX), Account(daveG)>>),
            Answer(FALSE, FALSE, <<>>)),
     Oracle(Answer(FALSE, FALSE, <<Account(aliceX), Account(aliceY)>>),
            Answer(TRUE, TRUE, <<>>),
            Answer(FALSE, FALSE, <<Account(daveX)>>),
            Answer(FALSE, FALSE, <<Group>>)),
     Oracle(Answer(FALSE, FALSE, <<Account(aliceY)>>),
            Answer(TRUE, FALSE, <<Account(carolX)>>),
            Answer(FALSE, FALSE, <<Account(carolG), Account(daveG)>>),
            Answer(TRUE, FALSE, <<Account(carolX)>>)),
     Oracle(Answer(FALSE, FALSE, <<Group, Account(aliceX)>>),
            Answer(FALSE, FALSE, <<Account(carolX), Account(daveX), Account(carolG)>>),
            Answer(FALSE, FALSE, <<>>),
            Answer(FALSE, FALSE, <<Account(aliceX)>>)),
     Oracle(Answer(TRUE, TRUE, <<>>),
            Answer(FALSE, FALSE, <<Group, Account(carolX)>>),
            Answer(FALSE, FALSE, <<Group>>),
            Answer(FALSE, FALSE, <<Account(carolX), Account(daveX)>>))}

RECURSIVE LineQueries(_, _)
LineQueries(old, toks) ==
    IF toks = <<>> THEN {}
    ELSE (IF have(old, Head(toks)) = <<>> THEN {Query(Head(toks))} ELSE {})
         \cup LineQueries(old, Tail(toks))

\* the queries a run of writeCL on this body can send
QueriesOf(old, lines) ==
    UNION {LineQueries(old, lines[i].toks) :
              i \in {j \in 1..Len(lines) : lines[j].k = "kv" /\ lines[j].key = "Reviewers"}}

\* the remote end of one run: who answers the lookups, which calls fail
Envs(old, lines, n) ==
    {[flagN |-> n, sug |-> [q \in QueriesOf(old, lines) |-> o[q]], fails |-> fails,
      accounts |-> KnownEmails, pick |-> "min", held |-> {}, nops |-> {}] :
        o \in Oracles, fails \in FailSets}

\* the patch set the window shows
patchSet == 2

\* the numbers of lines of a chunk: common, or removed and added
Shape(ab, a, b) == [AB |-> ab, A |-> a, B |-> b]

\* the number of lines of the old and of the new file before chunk k
RECURSIVE OldBefore(_, _)
OldBefore(shapes, k) ==
    IF k = 1 THEN 0 ELSE OldBefore(shapes, k - 1) + shapes[k - 1].AB + shapes[k - 1].A

RECURSIVE NewBefore(_, _)
NewBefore(shapes, k) ==
    IF k = 1 THEN 0 ELSE NewBefore(shapes, k - 1) + shapes[k - 1].AB + shapes[k - 1].B

\* The text of a line says where the line is: <<o, n>> is line o of the old
\* file and line n of the new file, 0 for the file that does not have it.
ChunkAt(shape, o, n) ==
    Chunk([j \in 1..shape.AB |-> <<o + j, n + j>>],
          [j \in 1..shape.A |-> <<o + j, 0>>],
          [j \in 1..shape.B |-> <<0, n + j>>])

\* the Content of the diff of two files whose chunks have these shapes
ContentOf(shapes) ==
    [k \in 1..Len(shapes) |-> ChunkAt(shapes[k], OldBefore(shapes, k), NewBefore(shapes, k))]

\* the diffs the server may hold
DiffA ==
    [ok |-> TRUE, DiffHeader |-> <<"---">>,
     Content |-> ContentOf(<<Shape(1, 0, 0), Shape(0, 1, 2), Shape(8, 0, 0), Shape(0, 0, 1)>>)]

DiffB == [ok |-> TRUE, DiffHeader |-> <<>>, Content |-> ContentOf(<<Shape(0, 0, 1)>>)]

DiffError == [ok |-> FALSE, DiffHeader |-> <<>>, Content |-> <<>>]

Draft(id, side, line, inReplyTo, text, updated) ==
    Held("rev2", "a.go",
         CommentInfo(id, "a.go", side, line, 0, inReplyTo, <<text>>, updated, ""))

Published(id, rev, side, line, text, updated, author) ==
    Held(rev, "a.go", CommentInfo(id, "a.go", side, line, 0, 0, <<text>>, updated, author))

dNew    == Draft(11, "", 2, 0, "m1", 5)
dFile   == Draft(12, "", 0, 0, "m2", 6)
dOld    == Draft(13, "PARENT", 2, 0, "m3", 7)
dReply  == Draft(14, "", 3, 1, "m4", 8)
dSame   == Draft(15, "", 2, 0, "m5", 9)
dHidden == Draft(16, "", 7, 0, "m6", 10)
dCtx    == Draft(17, "", 4, 0, "m7", 11)

cNew  == Published(1, "rev2", "", 3, "c1", 1, "alice")
cOld  == Published(2, "rev2", "PARENT", 3, "c2", 2, "carol")
cBase == Published(3, "rev1", "", 2, "c3", 3, "dave")
cLast == Published(4, "rev2", "", 12, "c4", 4, "alice")

\* the first ID, and time, the server gives out
FirstClock == 21

PSChange(files, diffB, comments, drafts, listPath) ==
    [ChangeInfo |-> ChangeInfoOf(bobX, <<>>), Files |-> files,
     Diff |-> [f \in AllFiles |-> IF f = "a.go" THEN DiffA ELSE diffB],
     Comments |-> comments, Drafts |-> drafts, clock |-> FirstClock,
     listPath |-> listPath]

\* the changes a patch-set window may be opened on
PSChanges ==
    {PSChange(<<"a.go">>, DiffB, <<>>, <<>>, TRUE),
     PSChange(<<"a.go">>, DiffB, <<>>, <<dNew>>, TRUE),
     PSChange(<<"a.go">>, DiffB, <<>>, <<dFile>>, TRUE),
     PSChange(<<"a.go">>, DiffB, <<>>, <<dOld>>, TRUE),
     PSChange(<<"a.go">>, DiffB, <<cNew>>, <<dReply>>, TRUE),
     PSChange(<<"a.go">>, DiffB, <<>>, <<dNew, dSame>>, TRUE),
     PSChange(<<"a.go">>, DiffB, <<>>, <<dHidden>>, TRUE),
     PSChange(<<"a.go">>, DiffB, <<cOld>>, <<dCtx>>, TRUE),
     PSChange(<<"a.go">>, DiffB, <<>>, <<dNew>>, FALSE),
     PSChange(<<"a.go", "b.go">>, DiffError, <<cBase>>, <<dNew>>, TRUE),
     PSChange(<<"a.go", "b.go">>, DiffB, <<cNew>>, <<>>, TRUE),
     PSChange(<<"a.go", "b.go">>, DiffB, <<cLast>>, <<>>, TRUE)}

\* text the reviewer may type into the patch-set document
TypedPSLines == {PSLine("Text", "t", 0, 0)}

\* The order in which the range over the drafts map visits two drafts that
\* match the same parsed comment; it matters only when there are two.
Picks(old) ==
    IF \E i, j \in 1..Len(old.Drafts) : i # j /\ SameDraft(old.Drafts[i], old.Drafts[j])
    THEN {"min", "max"} ELSE {"min"}

\* the remote end of one run of writePatchSet
EnvsPS(old, g, n) ==
    {[flagN |-> n, sug |-> <<>>, fails |-> fails, accounts |-> KnownEmails,
      pick |-> pick, held |-> HeldDrafts(g), nops |-> {}] :
        fails \in FailSets, pick \in Picks(old)}

----------------------------------------------------------------------------
(* The windows of the process: all, awin.new, awin.show, awin.look, exit *)

\* the most windows the process ever creates
MaxWin == 4

\* paths patchSetRE matches: a review, and a patch set of it
Paths == {"1234", "1234.2"}

Titles == Paths \cup {"all", "search"}

\* A window: st is "none" before it is created, "live", or "gone" once its
\* loop has ended; pc is where its event loop stands: "loop" between events,
\* "show" in look before w.show(text), "new" in look before w.newCL(text).
Win(st, title, pc, text) == [st |-> st, title |-> title, pc |-> pc, text |-> text]

NoWin == Win("none", "", "", "")

\* the process after review -a and one Search: two list windows
StartWindows ==
    /\ all = [m |-> [t \in Titles |-> IF t = "all" THEN 1 ELSE IF t = "search" THEN 2 ELSE 0],
              numwin |-> 2]
    /\ wins = [w \in 1..MaxWin |->
                  IF w = 1 THEN Win("live", "all", "loop", "")
                  ELSE IF w = 2 THEN Win("live", "search", "loop", "")
                  ELSE NoWin]

\* awin.loop, case 'l': a look event with a path as its text
LookEvent(w) ==
    /\ wins[w].st = "live" /\ wins[w].pc = "loop"
    /\ \E text \in Paths : wins' = [wins EXCEPT ![w].pc = "show", ![w].text = text]
    /\ UNCHANGED <<all, format, window>>

\* awin.look: w.show(text), under the lock
LookShow(w) ==
    /\ wins[w].st = "live" /\ wins[w].pc = "show"
    /\ wins' = IF all.m[wins[w].text] # 0
               THEN [wins EXCEPT ![w].pc = "loop", ![w].text = ""]
               ELSE [wins EXCEPT ![w].pc = "new"]
    /\ UNCHANGED <<all, format, window>>

\* the window awin.new creates
Created(w, w1) ==
    /\ all' = [all EXCEPT !.numwin = @ + 1, !.m[wins[w].text] = w1]
    /\ wins' = [wins EXCEPT ![w].pc = "loop", ![w].text = "",
                            ![w1] = Win("live", wins[w].text, "loop", "")]

\* awin.look: w.newCL(text), whose w.new(text) runs under the lock
LookNew(w) ==
    /\ wins[w].st = "live" /\ wins[w].pc = "new"
    /\ \E w1 \in 1..MaxWin :
          /\ wins[w1].st = "none"
          /\ \A w2 \in 1..(w1 - 1) : wins[w2].st # "none"
          /\ Created(w, w1)
    /\ UNCHANGED <<format, window>>

\* Del: the event channel closes, the loop ends and the deferred exit runs;
\* os.Exit ends every window with the last one
Exit(w) ==
    /\ wins[w].st = "live" /\ wins[w].pc = "loop"
    /\ all' = [all EXCEPT !.numwin = @ - 1,
                          !.m[wins[w].title] = IF @ = w THEN 0 ELSE @]
    /\ wins' = [w1 \in 1..MaxWin |->
                   IF wins[w1].st = "none" THEN NoWin
                   ELSE IF w1 = w \/ all.numwin = 1
                   THEN Win("gone", wins[w1].title, "", "")
                   ELSE wins[w1]]
    /\ UNCHANGED <<format, window>>

----------------------------------------------------------------------------
(* The window: state and commands shared by both modes *)

\* no run, no remote end
NoEnv ==
    [flagN |-> FALSE, sug |-> <<>>, fails |-> {}, accounts |-> {}, pick |-> "min",
     held |-> {}, nops |-> {}]

\* the remote end as the run met it: the calls it failed
Met(env, calls) == [env EXCEPT !.fails = {i \in 1..Len(calls) : ~calls[i].ok}]

\* the outcome of a command that ran neither writeCL nor writePatchSet
Idle(cmd) ==
    [cmd |-> cmd, calls |-> <<>>, errbuf |-> <<>>, lookups |-> <<>>,
     review |-> NoReview, env |-> NoEnv, old |-> NoCL, doc |-> <<>>,
     dry |-> FALSE, reloaded |-> FALSE, clean |-> FALSE, xerr |-> FALSE]

\* a nil pointer dereference: the process dies, no command runs after it
Panicked == last.cmd = "panic"

Panic ==
    /\ last' = Idle("panic")
    /\ UNCHANGED <<all, wins, format, mode, basePatchSet, gerrit, cl, body, flagN, hist>>

\* the event loop's Nop command
Nop ==
    /\ ~Panicked
    /\ hist.puts = 0
    /\ flagN' = ~flagN
    /\ last' = [Idle("nop") EXCEPT !.errbuf = <<Diag("flagN", ~flagN)>>]
    /\ hist' = [hist EXCEPT !.pass = 0]
    /\ UNCHANGED <<all, wins, format, mode, basePatchSet, gerrit, cl, body>>

\* acme's Undo after a Put that reloaded the window: the body is again the
\* document that was put, the snapshot is the one the reload fetched
Undo ==
    /\ ~Panicked
    /\ hist.pass = 1
    /\ body' = last.doc
    /\ hist' = [hist EXCEPT !.pass = 2, !.clean = FALSE]
    /\ last' = Idle("undo")
    /\ UNCHANGED <<all, wins, format, mode, basePatchSet, gerrit, cl, flagN>>

----------------------------------------------------------------------------
(* The window in modeCL *)

LoadError == <<CLLine("text", "HTTP status", <<>>)>>

\* awin.load, case modeCL: on an error the body is the error text and w.cl stays
loadCL(g, oldcl, ok) ==
    IF ok THEN [cl |-> showCLSnapshot(g), body |-> showCLText(g.ChangeInfo, g.Reviewers)]
    ELSE [cl |-> oldcl, body |-> LoadError]

GetCL ==
    /\ ~Panicked
    /\ mode = modeCL
    /\ \E ok \in BOOLEAN :
          /\ cl' = loadCL(gerrit, cl, ok).cl
          /\ body' = loadCL(gerrit, cl, ok).body
          /\ hist' = [hist EXCEPT !.pass = 0, !.clean = ok]
    /\ last' = Idle("load")
    /\ UNCHANGED <<all, wins, format, mode, basePatchSet, gerrit, flagN>>

\* the lines of the summary an edit may touch (the # lines are all alike)
EditableCL(lines) == {p \in 1..Len(lines) : lines[p].k # "hash"}

InsertAt(lines, p, l) == SubSeq(lines, 1, p - 1) \o <<l>> \o SubSeq(lines, p, Len(lines))

DeleteAt(lines, p) == SubSeq(lines, 1, p - 1) \o SubSeq(lines, p + 1, Len(lines))

\* the reviewer edits the change-summary document
EditedCL(lines) ==
    {[lines EXCEPT ![p].toks = t] :
        p \in {q \in 1..Len(lines) : lines[q].k = "kv" /\ lines[q].key = "Reviewers"},
        t \in ReviewerFields}
    \cup {[lines EXCEPT ![p].toks = t] :
        p \in {q \in 1..Len(lines) : lines[q].k = "kv" /\ lines[q].key = "Code-Review"},
        t \in VoteFields}
    \cup {InsertAt(lines, p, l) : p \in EditableCL(lines) \cup {Len(lines) + 1},
                                  l \in TypedCLLines}
    \cup {InsertAt([lines EXCEPT ![p].toks = t], p + d, CLLine("kv", "Bogus", <<>>)) :
        p \in {r \in 1..Len(lines) : lines[r].k = "kv" /\ lines[r].key = "Reviewers"},
        t \in {<<>>, <<alice, carol>>}, d \in {0, 1}}
    \cup {DeleteAt(lines, p) : p \in EditableCL(lines)}

EditCL ==
    /\ ~Panicked
    /\ mode = modeCL
    /\ hist.edits < MaxEdits
    /\ hist.puts = 0
    /\ \E b \in EditedCL(body) : b # body /\ body' = b
    /\ hist' = [hist EXCEPT !.edits = @ + 1, !.pass = 0, !.clean = FALSE]
    /\ last' = Idle("edit")
    /\ UNCHANGED <<all, wins, format, mode, basePatchSet, gerrit, cl, flagN>>

\* writeCL with a nil old: the first summary line that is not Owner reads
\* old.Reviewers or old.ChangeInfo, and so does the SetReview call
NilCLPanics(lines, n) ==
    \/ ~n
    \/ \E i \in 1..Len(lines) :
          /\ lines[i].k = "kv" /\ lines[i].key # "Owner"
          /\ \A j \in 1..(i - 1) :
                \/ lines[j].k \in {"blank", "hash"}
                \/ lines[j].k = "kv" /\ lines[j].key = "Owner"

\* the end of awin.put: the remote end has served the calls; an error leaves
\* the window as it is, success reloads it
PutDone(r, g1, ld, env, ok) ==
    /\ gerrit' = g1
    /\ cl' = IF r.xerr THEN cl ELSE ld.cl
    /\ body' = IF r.xerr THEN body ELSE ld.body
    /\ r.xerr => ok
    /\ last' = [cmd |-> "put", calls |-> r.calls, errbuf |-> r.errbuf,
                lookups |-> r.lookups, review |-> r.review,
                env |-> Met(env, r.calls), old |-> cl, doc |-> body,
                dry |-> flagN, reloaded |-> ~r.xerr /\ ok, clean |-> hist.clean,
                xerr |-> r.xerr]
    /\ hist' = [hist EXCEPT !.puts = @ + 1,
                            !.pass = IF hist.pass = 2 THEN 3
                                     ELSE IF ~r.xerr /\ ok THEN 1 ELSE 0,
                            !.clean = IF r.xerr THEN @ ELSE ok]
    /\ flagN' = FlagAfter(env)
    /\ UNCHANGED <<all, wins, format, mode, basePatchSet>>

PutCLServed(r, g1, env, ok) == PutDone(r, g1, loadCL(g1, cl, ok), env, ok)

PutCLRun(r, env, ok) == PutCLServed(r, ApplyCLCalls(gerrit, r.calls), env, ok)

\* awin.put, case modeCL: writeCL, then the error window or a reload;
\* nopTimes are the ways the Nop commands of other windows may fall in it
PutCLWhile(nopTimes) ==
    /\ ~Panicked
    /\ mode = modeCL
    /\ last.cmd # "put"
    /\ hist.puts < MaxPuts
    /\ IF cl = NoCL
       THEN IF NilCLPanics(body, flagN) THEN Panic
            ELSE /\ last' = [Idle("put") EXCEPT
                               !.errbuf = <<Diag("publish review",
                                                 [NoReview EXCEPT !.Drafts = "PUBLISH_ALL_REVISIONS"])>>,
                               !.doc = body, !.dry = TRUE]
                 /\ hist' = [hist EXCEPT !.pass = 0, !.puts = @ + 1]
                 /\ UNCHANGED <<all, wins, format, mode, basePatchSet, gerrit, cl, body, flagN>>
       ELSE \E env \in Envs(cl, body, flagN), nops \in nopTimes, ok \in BOOLEAN :
               PutCLRun(writeCL(cl, body, [env EXCEPT !.nops = nops]),
                        [env EXCEPT !.nops = nops], ok)

\* a Put while no other window runs a command
PutCL == PutCLWhile({{}})

\* awin.submit and awin.abandon, reached from the event loop in modeCL only
SubmitOrAbandon(op, logmsg) ==
    /\ ~Panicked
    /\ mode = modeCL
    /\ IF flagN
       THEN /\ last' = [Idle(logmsg) EXCEPT !.errbuf = <<Diag(logmsg, <<>>)>>, !.dry = TRUE]
            /\ hist' = [hist EXCEPT !.pass = 0]
            /\ UNCHANGED <<all, wins, format, mode, basePatchSet, gerrit, cl, body, flagN>>
       ELSE IF cl = NoCL THEN Panic
       ELSE \E ok \in BOOLEAN, lok \in BOOLEAN :
               LET ld == loadCL(gerrit, cl, lok)
               IN  /\ ~ok => lok
                   /\ last' = [Idle(logmsg) EXCEPT
                                 !.calls = <<Call(op, cl.ChangeInfo.ID, ok)>>,
                                 !.errbuf = IF ok THEN <<>> ELSE <<Diag(op, <<>>)>>,
                                 !.old = cl, !.reloaded = ok /\ lok]
                   /\ cl' = IF ok THEN ld.cl ELSE cl
                   /\ body' = IF ok THEN ld.body ELSE body
                   /\ hist' = [hist EXCEPT !.pass = 0, !.clean = IF ok THEN lok ELSE @]
                   /\ UNCHANGED <<all, wins, format, mode, basePatchSet, gerrit, flagN>>

Submit == SubmitOrAbandon("Submit", "submit")

Abandon == SubmitOrAbandon("Abandon", "abandon")

InitCL ==
    /\ mode = modeCL
    /\ basePatchSet = 0
    /\ \E rs \in ReviewerLists, vs \in VoteLists :
          gerrit = [ChangeInfo |-> ChangeInfoOf(bobX, vs), Reviewers |-> rs]
    /\ cl = NoCL
    /\ body = <<>>
    /\ flagN \in BOOLEAN
    /\ last = Idle("new")
    /\ hist = [edits |-> 0, puts |-> 0, pass |-> 0, clean |-> FALSE]
    /\ StartWindows
    /\ format = NoFormat

NextCL == GetCL \/ EditCL \/ PutCL \/ Submit \/ Abandon \/ Nop \/ Undo

SpecCL == InitCL /\ [][NextCL]_vars

----------------------------------------------------------------------------
(* The window in modePatchSet *)

LoadErrorPS == <<PSLine("Text", "HTTP status", 0, 0)>>

\* awin.load, case modePatchSet
loadPS(g, oldcl, ok) ==
    IF ok THEN showPatchSet(g, basePatchSet, patchSet)
    ELSE [cl |-> oldcl, body |-> LoadErrorPS]

Loaded(ld) ==
    /\ cl' = ld.cl
    /\ body' = ld.body

GetPS ==
    /\ ~Panicked
    /\ mode = modePatchSet
    /\ \E ok \in BOOLEAN :
          /\ Loaded(loadPS(gerrit, cl, ok))
          /\ hist' = [hist EXCEPT !.pass = 0, !.clean = ok]
    /\ last' = Idle("load")
    /\ UNCHANGED <<all, wins, format, mode, basePatchSet, gerrit, flagN>>

\* the reviewer edits the patch-set document: types a line of text, or
\* deletes a line of text or a comment header
EditedPS(lines) ==
    {InsertAt(lines, p, l) : p \in 2..(Len(lines) + 1), l \in TypedPSLines}
    \cup {DeleteAt(lines, p) : p \in {q \in 1..Len(lines) : lines[q].k \in {"Text", "Hdr"}}}

EditPS ==
    /\ ~Panicked
    /\ mode = modePatchSet
    /\ hist.edits < MaxEdits
    /\ hist.puts = 0
    /\ \E b \in EditedPS(body) : body' = b
    /\ hist' = [hist EXCEPT !.edits = @ + 1, !.pass = 0, !.clean = FALSE]
    /\ last' = Idle("edit")
    /\ UNCHANGED <<all, wins, format, mode, basePatchSet, gerrit, cl, flagN>>

PutPSServed(r, g1, env, ok) == PutDone(r, g1, loadPS(g1, cl, ok), env, ok)

PutPSRun(r, env, ok) == PutPSServed(r, ApplyPSCalls(gerrit, r.calls), env, ok)

\* awin.put, case modePatchSet: writePatchSet ranges over old.Drafts first
PutPS ==
    /\ ~Panicked
    /\ mode = modePatchSet
    /\ last.cmd # "put"
    /\ hist.puts < MaxPuts
    /\ IF cl = NoCL THEN Panic
       ELSE \E env \in EnvsPS(cl, gerrit, flagN), ok \in BOOLEAN :
               PutPSRun(writePatchSet(cl, body, env), env, ok)

InitPS ==
    /\ mode = modePatchSet
    /\ basePatchSet \in {0, 1}
    /\ gerrit \in PSChanges
    /\ cl = NoCL
    /\ body = <<>>
    /\ flagN \in BOOLEAN
    /\ last = Idle("new")
    /\ hist = [edits |-> 0, puts |-> 0, pass |-> 0, clean |-> FALSE]
    /\ StartWindows
    /\ format = NoFormat

NextPS == GetPS \/ EditPS \/ PutPS \/ Nop \/ Undo

SpecPS == InitPS /\ [][NextPS]_vars

----------------------------------------------------------------------------
(* Windows of both modes *)

Init == InitCL \/ InitPS

Next ==
    \/ GetCL \/ EditCL \/ PutCL \/ Submit \/ Abandon
    \/ GetPS \/ EditPS \/ PutPS
    \/ Nop \/ Undo

Spec == Init /\ [][Next]_vars

----------------------------------------------------------------------------
(* The diff renderer on diffs of every shape *)

\* the longest Content of a diff
MaxChunks == 4

\* the sizes of a common chunk: at and right above the context kept at one
\* end of a hunk, and at and right above what is kept whole
CommonSizes == {maxContext, maxContext + 1, 2 * maxContext, 2 * maxContext + 1}

\* the chunks of a diff: common lines, or lines removed, added or replaced
DiffShapes ==
    {Shape(n, 0, 0) : n \in CommonSizes} \cup {Shape(0, 1, 0), Shape(0, 0, 1), Shape(0, 1, 2)}

Contents(n) == {ContentOf(shapes) : shapes \in UNION {[1..m -> DiffShapes] : m \in 1..n}}

\* a change with one file, no comment and no draft, whose diff is diff
DiffChange(diff) ==
    [PSChange(<<"a.go">>, DiffB, <<>>, <<>>, TRUE) EXCEPT !.Diff["a.go"] = diff]

DiffOf(content) == [ok |-> TRUE, DiffHeader |-> <<"---">>, Content |-> content]

InitDiff ==
    /\ mode = modePatchSet
    /\ basePatchSet = 0
    /\ \E content \in Contents(MaxChunks) : gerrit = DiffChange(DiffOf(content))
    /\ cl = NoCL
    /\ body = <<>>
    /\ flagN = FALSE
    /\ last = Idle("new")
    /\ hist = [edits |-> 0, puts |-> 0, pass |-> 0, clean |-> FALSE]
    /\ StartWindows
    /\ format = NoFormat

\* the window is loaded; showPatchSet formats the diff of the file
NextDiff == GetPS

SpecDiff == InitDiff /\ [][NextDiff]_vars

----------------------------------------------------------------------------
(* The patch-set window on diffs of several shapes *)

\* the longest Content of a diff the reviewer writes into
MaxScanChunks == 3

\* common lines cut at one end or collapsed in the middle, and a replacement
ScanShapes ==
    {Shape(maxContext + 1, 0, 0), Shape(2 * maxContext + 1, 0, 0), Shape(0, 1, 2)}

ScanContents ==
    {ContentOf(shapes) : shapes \in UNION {[1..m -> ScanShapes] : m \in 1..MaxScanChunks}}

InitScan ==
    /\ mode = modePatchSet
    /\ basePatchSet \in {0, 1}
    /\ \E content \in ScanContents : gerrit = DiffChange(DiffOf(content))
    /\ cl = NoCL
    /\ body = <<>>
    /\ flagN \in BOOLEAN
    /\ last = Idle("new")
    /\ hist = [edits |-> 0, puts |-> 0, pass |-> 0, clean |-> FALSE]
    /\ StartWindows
    /\ format = NoFormat

NextScan == GetPS \/ EditPS \/ PutPS

SpecScan == InitScan /\ [][NextScan]_vars

----------------------------------------------------------------------------
(* The event loops of all the windows *)

\* the windows of the process, whatever the review they show
InitLook ==
    /\ mode = modeCL
    /\ basePatchSet = 0
    /\ gerrit = [ChangeInfo |-> ChangeInfoOf(bobX, <<>>), Reviewers |-> <<>>]
    /\ cl = NoCL
    /\ body = <<>>
    /\ flagN = FALSE
    /\ last = Idle("new")
    /\ hist = [edits |-> 0, puts |-> 0, pass |-> 0, clean |-> FALSE]
    /\ StartWindows
    /\ format = NoFormat

\* each loop is a goroutine of its own: their steps interleave freely
NextLook == \E w \in 1..MaxWin : LookEvent(w) \/ LookShow(w) \/ LookNew(w) \/ Exit(w)

SpecLook == InitLook /\ [][NextLook]_vars

----------------------------------------------------------------------------
(* A Put in one window, Nop in another *)

\* the last read of *flagN of a Put that a Nop of another window comes before
LastNop == 3

NopTimes == SUBSET (1..LastNop)

\* awin.put in the window followed, while the event loops of the other
\* windows, goroutines of their own, execute Nop
PutCLRaced == PutCLWhile(NopTimes)

NextNop == GetCL \/ EditCL \/ PutCLRaced \/ Nop

SpecNop == InitCL /\ [][NextNop]_vars

----------------------------------------------------------------------------
(* formatUnifiedDiff, loop by loop, on diffs of every shape *)

InitFormat ==
    /\ mode = modePatchSet
    /\ basePatchSet = 0
    /\ \E content \in Contents(MaxChunks) :
          /\ gerrit = DiffChange(DiffOf(content))
          /\ format = Formatting("loop", content, content, 1, 1, <<Line("", "---", 0, 0)>>)
    /\ cl = NoCL
    /\ body = <<>>
    /\ flagN = FALSE
    /\ last = Idle("new")
    /\ hist = [edits |-> 0, puts |-> 0, pass |-> 0, clean |-> FALSE]
    /\ StartWindows

\* one turn of `for len(content) > 0`: the run is collected and taken off
\* the content, then the loop breaks or the hunk of the run is emitted
FormatTurn ==
    /\ format.pc = "loop"
    /\ format.content # <<>>
    /\ format' = Turned(format, RunOf(format.content, Collected(format.content)),
                        Rest(format.content, Collected(format.content)))
    /\ UNCHANGED <<all, wins, window>>

\* the loop ends: return out
FormatReturn ==
    /\ format.pc = "loop"
    /\ format.content = <<>>
    /\ format' = [format EXCEPT !.pc = "done"]
    /\ UNCHANGED <<all, wins, window>>

NextFormat == FormatTurn \/ FormatReturn

SpecFormat == InitFormat /\ [][NextFormat]_vars

----------------------------------------------------------------------------
(* Properties *)

\* the last command was a Put that ran writeCL or writePatchSet on a snapshot
PutRan == last.cmd = "put" /\ last.old # NoCL

\* the calls of the last run made with one of the client methods ops
CallsOf(ops) == {i \in 1..Len(last.calls) : last.calls[i].op \in ops}

\* the diagnostics of the last run that carry one of the texts msgs
DiagsOf(msgs) == {i \in 1..Len(last.errbuf) : last.errbuf[i].msg \in msgs}

ReviewerOps == {"AddReviewer", "DeleteReviewer"}

DraftOps == {"CreateDraft", "DeleteDraft"}

\* C1 - round trip of the patch-set document: writePatchSet, given the text
\* showPatchSet wrote, untouched, and the CL showPatchSet returned with it,
\* issues no draft create, no draft update and no draft delete call.
C1_PatchSetRoundTrip ==
    (PutRan /\ mode = modePatchSet /\ last.clean) => CallsOf(DraftOps) = {}

\* C2 - round trip of the change-summary document: writeCL, given the text
\* showCL wrote, untouched, and the CL showCL returned with it, issues no
\* reviewer add and no reviewer remove, and the review it publishes carries no
\* label vote and an empty message.
C2_SummaryRoundTrip ==
    (PutRan /\ mode = modeCL /\ last.clean) =>
        /\ CallsOf(ReviewerOps) = {}
        /\ last.review.Labels = <<>>
        /\ last.review.Message = <<>>

\* C3 - idempotence: once a Put has applied a document and reloaded the
\* snapshot, a Put of the same document on the new snapshot issues no reviewer
\* add or remove and no draft create, update or delete.
C3_SecondPassIdle ==
    (PutRan /\ hist.pass = 3) => CallsOf(ReviewerOps \cup DraftOps) = {}

\* C4 - a parse error aborts before any mutation: when the summary holds a
\* key: value line whose key is neither Owner, nor Reviewers, nor a label,
\* writeCL makes no remote call at all, wherever that line stands.
C4_ParseErrorNoCall ==
    (PutRan /\ mode = modeCL /\ DiagsOf({"unknown summary line"}) # {}) =>
        last.calls = <<>>

\* the run of the last Put again, on the same snapshot and document, with
\* another remote end
Rerun(env) ==
    IF mode = modeCL THEN writeCL(last.old, last.doc, env)
    ELSE writePatchSet(last.old, last.doc, env)

\* the same run had no call failed by the remote end's choice
Unfailed == Rerun([last.env EXCEPT !.fails = {}])

\* the calls a run attempted, whatever became of them
Attempts(calls) == [i \in 1..Len(calls) |-> [op |-> calls[i].op, arg |-> calls[i].arg]]

\* s is t with some elements left out
RECURSIVE IsSubseq(_, _)
IsSubseq(s, t) ==
    IF s = <<>> THEN TRUE
    ELSE IF t = <<>> THEN FALSE
    ELSE IF Head(s).op = Head(t).op /\ Head(s).arg = Head(t).arg
    THEN IsSubseq(Tail(s), Tail(t))
    ELSE IsSubseq(s, Tail(t))

\* the diagnostic the code prints when a call of the method fails
FailureText(op) ==
    CASE op = "AddReviewer"    -> "adding reviewer"
      [] op = "DeleteReviewer" -> "removing reviewer"
      [] op = "SetReview"      -> "error publishing review"
      [] op = "CreateDraft"    -> "saving draft"
      [] op = "DeleteDraft"    -> "deleting draft"

FailureTexts ==
    {"adding reviewer", "removing reviewer", "error publishing review",
     "saving draft", "deleting draft"}

FailedCalls == {i \in 1..Len(last.calls) : ~last.calls[i].ok}

\* C5 - failure isolation: every failed call of a run of writeCL or
\* writePatchSet has its diagnostic, and the run still attempts every call,
\* and makes every lookup, that it makes when no call fails.
C5_FailureIsolation ==
    PutRan =>
        /\ \A i \in FailedCalls :
              \E j \in DiagsOf({FailureText(last.calls[i].op)}) :
                 last.errbuf[j].arg = last.calls[i].arg
        /\ Cardinality(FailedCalls) = Cardinality(DiagsOf(FailureTexts))
        /\ IsSubseq(Attempts(Unfailed.calls), Attempts(last.calls))
        /\ last.lookups = Unfailed.lookups

\* a run in which a call failed and calls of other methods followed it
C5_Witness ==
    /\ PutRan
    /\ \E i \in FailedCalls : \E j \in (i + 1)..Len(last.calls) :
          /\ last.calls[j].op # last.calls[i].op
          /\ last.calls[j].ok
    /\ Cardinality(FailedCalls) = 1

\* the same run with the dry-run flag clear and no call failed by choice
Live == Rerun([last.env EXCEPT !.flagN = FALSE, !.fails = {}])

\* the log entry that stands for a call of the method in a dry run
LogText(op) ==
    CASE op = "AddReviewer"    -> "add reviewer"
      [] op = "DeleteReviewer" -> "delete reviewer"
      [] op = "SetReview"      -> "publish review"
      [] op = "CreateDraft"    -> "add draft"
      [] op = "DeleteDraft"    -> "delete draft"

IsLog(d) == d.msg \in {"add reviewer", "delete reviewer", "publish review",
                       "add draft", "delete draft"}

Logs == SelectSeq(last.errbuf, IsLog)

\* the log entry d names what the call c would have done
Stands(d, c) ==
    /\ d.msg = LogText(c.op)
    /\ IF c.op \in DraftOps
       THEN /\ c.arg.rev = patchSetRevID(last.old.ChangeInfo.Revisions, d.arg.PatchSet)
            /\ c.arg.c.ID = d.arg.ID
            /\ c.arg.c.Message = d.arg.Message
       ELSE d.arg = c.arg

\* C6 - dry run: with the flag set, writeCL, writePatchSet, submit and abandon
\* issue no mutating call, and the log holds exactly one entry, in order, for
\* each call the same run issues with the flag clear.
C6_DryRun ==
    last.dry =>
        /\ last.calls = <<>>
        /\ last.cmd \in {"submit", "abandon"} => Len(last.errbuf) = 1
        /\ PutRan =>
              /\ Len(Logs) = Len(Live.calls)
              /\ \A i \in 1..Len(Logs) : Stands(Logs[i], Live.calls[i])

\* a dry run that logged a draft to add and a draft to delete, or a reviewer
\* to add and the review to publish
C6_Witness ==
    /\ PutRan /\ last.dry
    /\ \/ {"add draft", "delete draft"} \subseteq {Logs[i].msg : i \in 1..Len(Logs)}
       \/ {"add reviewer", "publish review"} \subseteq {Logs[i].msg : i \in 1..Len(Logs)}

\* the drafts writePatchSet knows, and whether their ids are distinct
Known == last.old.Drafts

DistinctIDs == \A i, j \in 1..Len(Known) : i # j => Known[i].ID # Known[j].ID

\* the parsed draft sent by call i has the identity key of the known draft k
HasKey(k, i) ==
    /\ Known[k].Path = last.calls[i].arg.c.Path
    /\ Known[k].Side = last.calls[i].arg.c.Side
    /\ Known[k].Line = last.calls[i].arg.c.Line
    /\ patchSetRevID(last.old.ChangeInfo.Revisions, Known[k].PatchSet) = last.calls[i].arg.rev
    /\ Known[k].InReplyTo = last.calls[i].arg.c.InReplyTo

DeletesOf(k) == {j \in CallsOf({"DeleteDraft"}) : last.calls[j].arg.c.ID = Known[k].ID}

\* C7 - draft reconciliation by identity key, for known drafts with distinct
\* ids: a parsed draft with the key of a known draft is sent with that draft's
\* id and that draft is not deleted; a parsed draft with the key of no known
\* draft is sent with no id; a known draft is deleted, exactly once, if and
\* only if no parsed draft has its key.
C7_DraftKeys ==
    (PutRan /\ mode = modePatchSet /\ ~last.dry /\ DistinctIDs) =>
        /\ \A i \in CallsOf({"CreateDraft"}) :
              /\ \A k \in 1..Len(Known) :
                    HasKey(k, i) => /\ last.calls[i].arg.c.ID = Known[k].ID
                                    /\ DeletesOf(k) = {}
              /\ (\A k \in 1..Len(Known) : ~HasKey(k, i)) => last.calls[i].arg.c.ID = 0
        /\ \A k \in 1..Len(Known) :
              Cardinality(DeletesOf(k)) =
                 IF \E i \in CallsOf({"CreateDraft"}) : HasKey(k, i) THEN 0 ELSE 1

\* the Reviewers lines of the document that the scan of writeCL reaches
ReviewersLines ==
    {i \in 1..Len(last.doc) :
        /\ last.doc[i].k = "kv" /\ last.doc[i].key = "Reviewers"
        /\ \A j \in 1..(i - 1) : last.doc[j].k # "text"}

\* the operands of the calls of one method, in the order of the calls
RECURSIVE ArgsOf(_, _)
ArgsOf(calls, op) ==
    IF calls = <<>> THEN <<>>
    ELSE (IF Head(calls).op = op THEN <<Head(calls).arg>> ELSE <<>>) \o ArgsOf(Tail(calls), op)

KnownEmailsOf(old) == {old.Reviewers[i].Email : i \in 1..Len(old.Reviewers)}

\* the known reviewers a token names, by short name or by full e-mail
NamedBy(old, f) ==
    {e \in KnownEmailsOf(old) : f = shortEmail(e) \/ f = e}

\* the candidates the lookup of token f returned (none when it failed)
Candidates(f) ==
    LET r == last.env.sug[Query(f)]
    IN  IF r.err1 /\ (Len(f) < 3 \/ r.err2) THEN <<>> ELSE r.acct

PreferredOf(acct) == SelectSeq(CandidateEmails(acct), Preferred)

\* the e-mail the resolution rule chooses among the candidates, <<>> if none
Chosen(acct) ==
    IF Len(PreferredOf(acct)) = 1 THEN PreferredOf(acct)[1]
    ELSE IF Len(PreferredOf(acct)) = 0 /\ Len(acct) = 1 THEN acct[1].Email
    ELSE <<>>

\* the identities token f stands for
Identities(old, f) ==
    IF NamedBy(old, f) # {} THEN NamedBy(old, f)
    ELSE IF Chosen(Candidates(f)) # <<>> THEN {Chosen(Candidates(f))}
    ELSE {}

\* the adds of the plan: each resolved token whose identity is no known reviewer
RECURSIVE PlanAdds(_, _)
PlanAdds(old, toks) ==
    IF toks = <<>> THEN <<>>
    ELSE (IF NamedBy(old, Head(toks)) = {} /\ Identities(old, Head(toks)) # {}
             /\ Identities(old, Head(toks)) \cap KnownEmailsOf(old) = {}
          THEN <<Chosen(Candidates(Head(toks)))>> ELSE <<>>)
         \o PlanAdds(old, Tail(toks))

\* the removals of the plan: each known reviewer that is neither the owner,
\* nor named by a token, nor the identity of a token
PlanRemoves(old, toks, i) ==
    /\ old.Reviewers[i].Email # old.ChangeInfo.Owner.Email
    /\ \A k \in 1..Len(toks) : old.Reviewers[i].Email \notin Identities(old, toks[k])

RECURSIVE PlanRemovals(_, _, _)
PlanRemovals(old, toks, i) ==
    IF i > Len(old.Reviewers) THEN <<>>
    ELSE (IF PlanRemoves(old, toks, i) THEN <<old.Reviewers[i].Email>> ELSE <<>>)
         \o PlanRemovals(old, toks, i + 1)

\* the scenario of the spec: reviewers {alice@x.org}, owner bob@x.org, the
\* line `alice carol`, carol resolving to carol@x.org alone
Scenario(i) ==
    /\ last.old.Reviewers = <<aliceX>>
    /\ last.old.ChangeInfo.Owner = bobX
    /\ last.doc[i].toks = <<alice, carol>>
    /\ Candidates(carol) = <<Account(carolX)>>

\* C8 - reviewer plan: for a Reviewers line the add calls of writeCL are one
\* for each resolved token whose identity is not a known reviewer, the remove
\* calls one for each known reviewer that is neither the owner, nor named by
\* a token, nor the identity a token resolved to; in the scenario the calls
\* are one add of carol@x.org and no removal.
C8_ReviewerPlan ==
    (PutRan /\ mode = modeCL /\ ~last.dry) =>
        \A i \in ReviewersLines :
            /\ ArgsOf(last.calls, "AddReviewer") = PlanAdds(last.old, last.doc[i].toks)
            /\ ArgsOf(last.calls, "DeleteReviewer") = PlanRemovals(last.old, last.doc[i].toks, 1)
            /\ Scenario(i) => /\ ArgsOf(last.calls, "AddReviewer") = <<carolX.Email>>
                               /\ ArgsOf(last.calls, "DeleteReviewer") = <<>>

\* what the resolution rule decides for the candidates of a token
Decision(acct) ==
    IF Len(acct) = 0 THEN "unknown"
    ELSE IF Len(PreferredOf(acct)) = 1 THEN "add"
    ELSE IF Len(PreferredOf(acct)) = 0 /\ Len(acct) = 1 THEN "add"
    ELSE "ambiguous"

\* the adds the rule decides for the tokens that match no known reviewer
RECURSIVE RuleAdds(_, _)
RuleAdds(old, toks) ==
    IF toks = <<>> THEN <<>>
    ELSE (IF NamedBy(old, Head(toks)) = {} /\ Decision(Candidates(Head(toks))) = "add"
          THEN <<Chosen(Candidates(Head(toks)))>> ELSE <<>>)
         \o RuleAdds(old, Tail(toks))

\* the diagnostics the rule decides for them
RECURSIVE RuleDiags(_, _)
RuleDiags(old, toks) ==
    IF toks = <<>> THEN <<>>
    ELSE (IF NamedBy(old, Head(toks)) # {} \/ Decision(Candidates(Head(toks))) = "add"
          THEN <<>>
          ELSE IF Decision(Candidates(Head(toks))) = "unknown"
          THEN <<Diag("unknown reviewer", Head(toks))>>
          ELSE <<Diag("ambiguous reviewer",
                      <<Head(toks), CandidateEmails(Candidates(Head(toks)))>>)>>)
         \o RuleDiags(old, Tail(toks))

IsResolutionDiag(d) == d.msg \in {"unknown reviewer", "ambiguous reviewer"}

\* the e-mails of the candidates returned for the tokens of a line
Returned(old, toks) ==
    UNION {{Candidates(toks[k])[c].Email : c \in 1..Len(Candidates(toks[k]))} :
              k \in {n \in 1..Len(toks) : NamedBy(old, toks[n]) = {}}}

\* C9 - reviewer resolution: for a token that matches no known reviewer, the
\* one preferred candidate, or else the only candidate, is added; in every
\* other case an unknown-reviewer or ambiguous-reviewer diagnostic (listing
\* every candidate e-mail) is recorded and no add is made; an add always
\* carries the non-empty e-mail of a returned candidate.
C9_Resolution ==
    (PutRan /\ mode = modeCL /\ ~last.dry) =>
        \A i \in ReviewersLines :
            /\ ArgsOf(last.calls, "AddReviewer") = RuleAdds(last.old, last.doc[i].toks)
            /\ SelectSeq(last.errbuf, IsResolutionDiag) = RuleDiags(last.old, last.doc[i].toks)
            /\ \A k \in CallsOf({"AddReviewer"}) :
                  /\ last.calls[k].arg # <<>>
                  /\ last.calls[k].arg \in Returned(last.old, last.doc[i].toks)

\* the label lines of the document that the scan of writeCL reaches
LabelLinesOf ==
    {i \in 1..Len(last.doc) :
        /\ last.doc[i].k = "kv"
        /\ last.doc[i].key \in DOMAIN last.old.ChangeInfo.Labels
        /\ \A j \in 1..(i - 1) : last.doc[j].k # "text"}

\* the fields of line i that equal a permitted vote of its label, trimmed
Hits(i) ==
    {k \in 1..Len(last.doc[i].toks) :
        \E j \in 1..Len(last.old.ChangeInfo.PermittedLabels[last.doc[i].key]) :
           last.doc[i].toks[k] =
              TrimSpace(last.old.ChangeInfo.PermittedLabels[last.doc[i].key][j])}

\* the vote of the review for the label of line i is field k, or there is none
VoteIs(i, k) ==
    IF k = 0 THEN last.doc[i].key \notin DOMAIN last.review.Labels
    ELSE /\ last.doc[i].key \in DOMAIN last.review.Labels
         /\ last.review.Labels[last.doc[i].key] = Atoi(last.doc[i].toks[k])

NoLabelDiag(i) == \A d \in DiagsOf({"unknown summary line"}) : last.errbuf[d].arg # last.doc[i].key

\* C10 as claimed - label filtering: the vote applied for a label line is its
\* first field that equals a permitted vote; other fields are dropped without
\* a diagnostic; with no such field no vote is set.
C10_FirstVote ==
    (PutRan /\ mode = modeCL) =>
        \A i \in LabelLinesOf :
            /\ VoteIs(i, IF Hits(i) = {} THEN 0 ELSE Min(Hits(i)))
            /\ NoLabelDiag(i)

\* C10 as amended - label filtering: the vote applied for a label line is
\* its last field that equals a permitted vote; other fields are dropped
\* without a diagnostic; with no such field no vote is set.
C10_LastVote ==
    (PutRan /\ mode = modeCL) =>
        \A i \in LabelLinesOf :
            /\ VoteIs(i, IF Hits(i) = {} THEN 0 ELSE Max(Hits(i)))
            /\ NoLabelDiag(i)

\* a run over a label line with two different permitted votes, the second of
\* which is the vote of the review
C10_Witness ==
    /\ PutRan /\ mode = modeCL
    /\ \E i \in LabelLinesOf :
          /\ Cardinality(Hits(i)) = 2
          /\ last.doc[i].toks[Min(Hits(i))] # last.doc[i].toks[Max(Hits(i))]
          /\ VoteIs(i, Max(Hits(i)))

\* the e-mails the last run removed, or in a dry run logged to remove
Removed ==
    {last.calls[i].arg : i \in CallsOf({"DeleteReviewer"})}
        \cup {last.errbuf[i].arg : i \in DiagsOf({"delete reviewer"})}

\* C11 - the owner is never removed: whatever tokens the Reviewers line
\* holds, and however the lookups and the add calls turn out, writeCL issues
\* no remove call for the e-mail of the owner of the change.
C11_OwnerKept ==
    PutRan /\ mode = modeCL => last.old.ChangeInfo.Owner.Email \notin Removed

\* the owner is among the reviewers the server lists, the Reviewers line does
\* not name the owner, and the run removed another reviewer
C11_Witness ==
    /\ PutRan /\ mode = modeCL
    /\ last.old.ChangeInfo.Owner.Email \in KnownEmailsOf(last.old)
    /\ \E i \in ReviewersLines :
          \A k \in 1..Len(last.doc[i].toks) :
             last.doc[i].toks[k] # shortEmail(last.old.ChangeInfo.Owner.Email)
    /\ Removed # {}

\* the reviews the last run published, or in a dry run logged to publish
PublishedReviews ==
    {last.calls[i].arg : i \in CallsOf({"SetReview"})}
        \cup {last.errbuf[i].arg : i \in DiagsOf({"publish review"})}

\* a line of the summary showCL writes: a blank or "#" line, Owner, Reviewers
\* or the line of a label of the change
IsSummaryLine(l) ==
    \/ l.k \in {"blank", "hash"}
    \/ l.k = "kv" /\ l.key \in {"Owner", "Reviewers"} \cup DOMAIN last.old.ChangeInfo.Labels

\* the first line after the summary lines, and the first "Patch Set " line
SummaryEnd ==
    Min({i \in 1..Len(last.doc) : ~IsSummaryLine(last.doc[i])} \cup {Len(last.doc) + 1})

FirstPatchSetLine ==
    Min({i \in 2..Len(last.doc) : last.doc[i] = PatchSetHdr} \cup {Len(last.doc) + 1})

\* the text between the two, without the blank lines around it; empty when
\* it is the placeholder or there is no "Patch Set " line after the summary
BetweenText ==
    LET ends == {j \in SummaryEnd..(FirstPatchSetLine - 1) : last.doc[j].k # "blank"}
    IN  IF FirstPatchSetLine > Len(last.doc) \/ ends = {} THEN <<>>
        ELSE SubSeq(last.doc, SummaryEnd, Max(ends))

ExpectedMessage == IF BetweenText = <<Placeholder>> THEN <<>> ELSE BetweenText

\* every summary line of the document precedes the text: what follows the
\* summary holds no Owner, Reviewers or label line
SummaryIntact ==
    \A j \in SummaryEnd..(FirstPatchSetLine - 1) :
        last.doc[j].k = "kv" => ~IsSummaryLine(last.doc[j])

\* C12 - review message extraction: for every edited change-summary document
\* writeCL publishes a review whose message is the trimmed text between the
\* end of the summary lines and the first "Patch Set " line, whatever that
\* text contains, and the empty message when that text is the placeholder or
\* is absent.
C12_ReviewMessage ==
    (PutRan /\ mode = modeCL /\ SummaryIntact) =>
        /\ PublishedReviews # {}
        /\ \A r \in PublishedReviews : r.Message = ExpectedMessage

\* the diff of the file the window shows, and its rendering
TheContent == gerrit.Diff["a.go"].Content

\* the window holds the text showPatchSet wrote for the diff
DiffShown == last.cmd = "load" /\ hist.clean /\ gerrit.Diff["a.go"].ok

IsHunkHeader(l) == l.Prefix = "" /\ l.Text = "@@"

IsChange(l) == l.Prefix \in {"-", "+"}

\* the places of the output that hold one of the lines
PlacesOf(out, lines) ==
    {i \in 1..Len(out) :
        out[i].Prefix = " " /\ \E j \in 1..Len(lines) : out[i].Text = lines[j]}

\* out[i], out[i+1], ... are the lines, as context
RunAt(out, i, lines) ==
    /\ i >= 1 /\ i + Len(lines) - 1 <= Len(out)
    /\ \A j \in 1..Len(lines) : out[i + j - 1].Prefix = " " /\ out[i + j - 1].Text = lines[j]

\* the common chunks that lie between two replace chunks
Between(content) ==
    {k \in 2..(Len(content) - 1) :
        content[k].AB # <<>> /\ content[k - 1].AB = <<>> /\ content[k + 1].AB = <<>>}

\* the first maxContext lines end a hunk that holds the change before them,
\* the last maxContext lines start the hunk of the change after them, and no
\* other line of the block is in the output
Collapsed(out, lines) ==
    \E i, j \in 2..Len(out) :
        /\ RunAt(out, i, SubSeq(lines, 1, maxContext))
        /\ IsChange(out[i - 1])
        /\ i + maxContext <= Len(out) /\ IsHunkHeader(out[i + maxContext])
        /\ RunAt(out, j, SubSeq(lines, Len(lines) - maxContext + 1, Len(lines)))
        /\ IsHunkHeader(out[j - 1])
        /\ j + maxContext <= Len(out) /\ IsChange(out[j + maxContext])
        /\ PlacesOf(out, lines) = (i..(i + maxContext - 1)) \cup (j..(j + maxContext - 1))

\* every line of the block is in the output once, between the two changes
\* and with no hunk header in between
Whole(out, lines) ==
    \E i \in 2..Len(out) :
        /\ RunAt(out, i, lines)
        /\ IsChange(out[i - 1])
        /\ i + Len(lines) <= Len(out) /\ IsChange(out[i + Len(lines)])
        /\ PlacesOf(out, lines) = i..(i + Len(lines) - 1)

HunksCollapse(out, content) ==
    \A k \in Between(content) :
        IF Len(content[k].AB) > 2 * maxContext THEN Collapsed(out, content[k].AB)
        ELSE Whole(out, content[k].AB)

\* C13 - hunk collapsing: of every common block of more than 6 lines between
\* two replace blocks, exactly the first 3 lines are the trailing context of
\* the preceding hunk, exactly the last 3 the leading context of the
\* following hunk, and the lines in between are emitted nowhere; a common
\* block of at most 6 lines between two replace blocks is emitted whole in a
\* single hunk.
C13_HunkCollapsing ==
    DiffShown => HunksCollapse(formatUnifiedDiff(gerrit.Diff["a.go"]), TheContent)

\* a diff is shown that starts with common lines and has, further down, a
\* common block of more than 6 lines between two replace blocks
C13_Witness ==
    /\ DiffShown
    /\ Len(TheContent[1].AB) > maxContext
    /\ \E k \in Between(TheContent) : Len(TheContent[k].AB) > 2 * maxContext

\* the lines of the output that come from the two files
FileLines(out) == {i \in 1..Len(out) : out[i].Prefix # ""}

TruePlace(l) ==
    /\ l.Text = <<l.Old, l.New>>
    /\ l.Prefix = " " => l.Old >= 1 /\ l.New >= 1
    /\ l.Prefix = "-" => l.Old >= 1 /\ l.New = 0
    /\ l.Prefix = "+" => l.Old = 0 /\ l.New >= 1

TruePlaces(out) == \A i \in FileLines(out) : TruePlace(out[i])

\* C14 - line numbers: every emitted line carries its true 1-based place, a
\* context line in both files, a removed line in the old file with New 0, an
\* added line in the new file with Old 0, also after regions that were
\* collapsed.
C14_LineNumbers == DiffShown => TruePlaces(formatUnifiedDiff(gerrit.Diff["a.go"]))

\* a diff is shown whose second hunk, after a collapsed region, holds context,
\* a removed and an added line
C14_Witness ==
    /\ DiffShown
    /\ \E k \in Between(TheContent) :
          /\ Len(TheContent[k].AB) > 2 * maxContext
          /\ TheContent[k + 1].A # <<>> /\ TheContent[k + 1].B # <<>>

\* the places of the hunk headers of the output
Headers(out) == {i \in 1..Len(out) : IsHunkHeader(out[i])}

\* the places of the lines of the hunk whose header is at h
HunkLines(out, h) ==
    {i \in (h + 1)..Len(out) : \A j \in (h + 1)..i : ~IsHunkHeader(out[j])}

EveryHunkChanges(out) ==
    \A h \in Headers(out) : \E i \in HunkLines(out, h) : IsChange(out[i])

\* C20 - no context-only hunk: formatUnifiedDiff emits no hunk that holds
\* nothing but context lines, also when common blocks follow one another.
C20_NoContextOnlyHunk ==
    DiffShown => EveryHunkChanges(formatUnifiedDiff(gerrit.Diff["a.go"]))

\* C15 - aggregate failure: writeCL and writePatchSet return an error exactly
\* when the run wrote a diagnostic or a dry-run log entry to its buffer; a
\* run that wrote nothing returns nil even if it changed nothing, and the
\* return after a parse error still carries what was written.
C15_AggregateFailure ==
    PutRan => (last.xerr <=> last.errbuf # <<>>)

\* writeCL returned early after a parse error that followed another
\* diagnostic
C15_Witness ==
    /\ PutRan
    /\ DiagsOf({"unknown summary line"}) # {}
    /\ Len(last.errbuf) > 1
    /\ last.xerr

\* the live windows that show the path
WindowsOf(path) == {w \in 1..MaxWin : wins[w].st = "live" /\ wins[w].title = path}

\* C16 - one window per review: however the look requests of the event
\* loops of different windows interleave, a look at a review or patch-set
\* path that has a window creates no second one: at most one live window
\* exists per review or patch-set title.
C16_OneWindow == \A path \in Paths : Cardinality(WindowsOf(path)) <= 1

\* the line the reviewer types
Typed == PSLine("Text", "t", 0, 0)

\* the drafts the last run sent, or in a dry run logged to send, each with
\* the revision it is addressed to
SentDrafts ==
    {[rev |-> last.calls[i].arg.rev, c |-> last.calls[i].arg.c] :
        i \in CallsOf({"CreateDraft"})}
    \cup {[rev |-> patchSetRevID(last.old.ChangeInfo.Revisions, last.errbuf[i].arg.PatchSet),
           c |-> [last.errbuf[i].arg EXCEPT !.PatchSet = 0]] :
             i \in DiagsOf({"add draft"})}

\* the number of diff lines of the document above line p
DiffLinesAbove(doc, p) == Cardinality({q \in 1..(p - 1) : doc[q].k = "Diff"})

\* the places where the typed text directly follows a removed, an added or
\* a context line of the diff, and those where it stands in the region of
\* the file above the first diff line
TypedAfterLine(doc) ==
    {p \in 2..Len(doc) :
        /\ doc[p] = Typed
        /\ doc[p - 1].k = "Diff" /\ doc[p - 1].s \in {" ", "-", "+"}}

TypedAtTop(doc) ==
    {p \in 2..Len(doc) :
        /\ doc[p] = Typed
        /\ doc[p - 1].k # "Text"
        /\ DiffLinesAbove(doc, p) = 0
        /\ \E q \in 1..(p - 1) : doc[q].k = "File"}

\* the revision of the shown patch set, and of the old side: the base
\* patch set, or the shown one, whose parent the old side then is
PatchRevID == patchSetRevID(last.old.ChangeInfo.Revisions, last.old.Patch)

OldRevID ==
    IF last.old.Base = 0 THEN PatchRevID
    ELSE patchSetRevID(last.old.ChangeInfo.Revisions, last.old.Base)

\* the draft is anchored to the line l of the rendered diff
AnchoredTo(d, l) ==
    /\ d.c.Path = "a.go"
    /\ d.c.Message[1] = Typed.s
    /\ IF l.Prefix = "-"
       THEN /\ d.c.Line = l.Old
            /\ d.c.Side = (IF last.old.Base = 0 THEN "PARENT" ELSE "")
            /\ d.rev = OldRevID
       ELSE /\ d.c.Line = l.New
            /\ d.c.Side = ""
            /\ d.rev = PatchRevID

FileLevel(d) ==
    /\ d.c.Path = "a.go"
    /\ d.c.Message[1] = Typed.s
    /\ d.c.Line = 0
    /\ d.c.Side = ""
    /\ d.rev = PatchRevID

AnchorsAgree(doc, udiff) ==
    /\ \A p \in TypedAfterLine(doc) :
          \E d \in SentDrafts : AnchoredTo(d, udiff[DiffLinesAbove(doc, p)])
    /\ \A p \in TypedAtTop(doc) : \E d \in SentDrafts : FileLevel(d)

\* C17 - renderer and parser agree on positions: text typed directly after a
\* rendered diff line becomes a draft anchored to that line, on the old
\* side with the line's Old number after a removed line, on the new side
\* (the shown patch set) with the line's New number after an added or a
\* context line; text typed in the region of a file above its first diff
\* line becomes a file-level draft of that file.
C17_AnchorsAgree ==
    (PutRan /\ mode = modePatchSet /\ gerrit.Diff["a.go"].ok) =>
        AnchorsAgree(last.doc, formatUnifiedDiff(gerrit.Diff["a.go"]))

\* the nearest line above p that is neither blank nor a continuation line
NearestAbove(doc, p) == Max({q \in 1..(p - 1) : ~isCont(doc[q])} \cup {0})

\* The places where a block of free text of a file starts: a line of text
\* right under a comment and its continuation lines, or the first line that
\* is not blank under a File line or a diff line.
BlockStarts(doc) ==
    {p \in 2..Len(doc) :
        /\ doc[p].k \in {"Text", "Tab"}
        /\ NearestAbove(doc, p) > 0
        /\ \/ doc[NearestAbove(doc, p)].k = "Hdr" /\ doc[p].k = "Text"
           \/ /\ doc[NearestAbove(doc, p)].k \in {"File", "Diff"}
              /\ \A x \in (NearestAbove(doc, p) + 1)..(p - 1) : doc[x].k = "Blank"
        /\ \E q \in 1..(p - 1) : doc[q].k = "File"}

\* the comment the header at line q was matched to, 0 when to none: the
\* scan looks every header line up, in the order of the document
MatchedAt(doc, q) == last.lookups[Cardinality({r \in 1..q : doc[r].k = "Hdr"})]

\* the reply-to the block that starts at p has by the rule
ReplyRule(doc, p) ==
    IF doc[NearestAbove(doc, p)].k = "Hdr" THEN MatchedAt(doc, NearestAbove(doc, p)) ELSE 0

\* the drafts of the last run in the order they were sent, or logged
DraftOf(x) == IF last.dry THEN x.arg ELSE x.arg.c

IsDraftSent(x) == IF last.dry THEN x.msg = "add draft" ELSE x.op = "CreateDraft"

DraftsSent == SelectSeq(IF last.dry THEN last.errbuf ELSE last.calls, IsDraftSent)

\* the block that starts at p is the n-th block of the document
BlockNumber(doc, p) == Cardinality({q \in BlockStarts(doc) : q <= p})

\* C18 - scope of the reply relation: a draft block is sent as a reply to a
\* comment exactly when the nearest line above it that is neither blank nor
\* a continuation line is a comment header matched to that comment; a File
\* line or a diff line between header and draft cancels the relation.
C18_ReplyScope ==
    (PutRan /\ mode = modePatchSet) =>
        /\ Len(DraftsSent) = Cardinality(BlockStarts(last.doc))
        /\ \A p \in BlockStarts(last.doc) :
              DraftOf(DraftsSent[BlockNumber(last.doc, p)]).InReplyTo
                  = ReplyRule(last.doc, p)

\* the window holds the text showPatchSet wrote, untouched
PatchSetShown == mode = modePatchSet /\ last.cmd = "load" /\ hist.clean

\* the revisions the document is about: the patch set and, if any, the base
ShownRevs ==
    {patchSetRevID(gerrit.ChangeInfo.Revisions, patchSet)}
        \cup (IF basePatchSet = 0 THEN {}
              ELSE {patchSetRevID(gerrit.ChangeInfo.Revisions, basePatchSet)})

\* what the server holds on those revisions for a displayed file whose
\* diff was fetched
Displayed(h) ==
    /\ h.Rev \in ShownRevs
    /\ \E i \in 1..Len(gerrit.Files) : gerrit.Files[i] = h.File
    /\ gerrit.Diff[h.File].ok

ShownComments == {i \in 1..Len(gerrit.Comments) : Displayed(gerrit.Comments[i])}

ShownDrafts == {i \in 1..Len(gerrit.Drafts) : Displayed(gerrit.Drafts[i])}

\* the lines of the document a comment is announced by, those a draft
\* starts with, and the entries of CL.Drafts for a draft
HeaderLinesOf(c) ==
    {p \in 1..Len(body) :
        body[p].k = "Hdr" /\ body[p].s = c.Author /\ body[p].a = c.Updated}

DraftLinesOf(c) == {p \in 1..Len(body) : body[p].k = "Text" /\ body[p].s = c.Message[1]}

RecordsOf(c) == {i \in 1..Len(cl.Drafts) : cl.Drafts[i].ID = c.ID}

\* the displayed comments with the header of c, the lines of the displayed
\* drafts that read as the first line of c, and the displayed drafts with
\* the ID of c
SameHeader(c) ==
    {j \in ShownComments :
        /\ gerrit.Comments[j].c.Author = c.Author
        /\ gerrit.Comments[j].c.Updated = c.Updated}

SameText(c) ==
    UNION {{<<j, k>> : k \in {n \in 1..Len(gerrit.Drafts[j].c.Message) :
                                 gerrit.Drafts[j].c.Message[n] = c.Message[1]}} :
           j \in ShownDrafts}

SameID(c) == {j \in ShownDrafts : gerrit.Drafts[j].c.ID = c.ID}

\* C19 - every comment is shown exactly once: each published comment and
\* each draft of a displayed file whose diff was fetched is written once in
\* the patch-set document, with or without a base patch set, and each such
\* draft is recorded once in the Drafts of the CL that is returned.
C19_ShownOnce ==
    PatchSetShown =>
        /\ \A i \in ShownComments :
              Cardinality(HeaderLinesOf(gerrit.Comments[i].c))
                  = Cardinality(SameHeader(gerrit.Comments[i].c))
        /\ \A i \in ShownDrafts :
              /\ Cardinality(DraftLinesOf(gerrit.Drafts[i].c))
                    = Cardinality(SameText(gerrit.Drafts[i].c))
              /\ Cardinality(RecordsOf(gerrit.Drafts[i].c))
                    = Cardinality(SameID(gerrit.Drafts[i].c))

\* the lines of the hunk at h that belong to the old file, and to the new
OldSide(out, h) == {i \in HunkLines(out, h) : out[i].Prefix \in {" ", "-"}}

NewSide(out, h) == {i \in HunkLines(out, h) : out[i].Prefix \in {" ", "+"}}

HeaderConsistent(out, h) ==
    /\ out[h].oldLen = Cardinality(OldSide(out, h))
    /\ out[h].newLen = Cardinality(NewSide(out, h))
    /\ OldSide(out, h) # {} => out[h].oldStart = out[Min(OldSide(out, h))].Old
    /\ NewSide(out, h) # {} => out[h].newStart = out[Min(NewSide(out, h))].New

HeadersConsistent(out) == \A h \in Headers(out) : HeaderConsistent(out, h)

\* C21 - hunk header consistency: in every hunk header oldLen is the number
\* of context and removed lines of the hunk, newLen the number of context and
\* added lines, and oldStart (newStart) is the Old (New) number of the first
\* old-side (new-side) line of the hunk when it has one.
C21_HunkHeaders == DiffShown => HeadersConsistent(formatUnifiedDiff(gerrit.Diff["a.go"]))

\* a diff is shown whose first hunk starts after skipped common lines and
\* whose last chunk adds lines only
C21_Witness ==
    /\ DiffShown
    /\ Len(TheContent) >= 2
    /\ Len(TheContent[1].AB) > maxContext
    /\ TheContent[Len(TheContent)].AB = <<>>
    /\ TheContent[Len(TheContent)].A = <<>>

\* the numbers of one side grow along the output
Increasing(out, Num(_)) ==
    \A i, j \in FileLines(out) : (i < j /\ Num(out[i]) # 0 /\ Num(out[j]) # 0)
                                    => Num(out[i]) < Num(out[j])

OldOf(l) == l.Old

NewOf(l) == l.New

\* no line of either file is in the output twice
NoLineTwice(out) ==
    \A i, j \in FileLines(out) : i # j => out[i].Text # out[j].Text

NoOverlap(out) == Increasing(out, OldOf) /\ Increasing(out, NewOf) /\ NoLineTwice(out)

\* C29 - hunks never overlap: along the whole output the non-zero Old numbers
\* are strictly increasing and so are the non-zero New numbers, and no source
\* line is emitted twice, also when the trailing context of one hunk and the
\* leading context of the next come from the same long common block.
C29_NoOverlap == DiffShown => NoOverlap(formatUnifiedDiff(gerrit.Diff["a.go"]))

\* a diff is shown with a common block of exactly 2 * maxContext + 1 lines
\* right after the first change and right before the second
C29_Witness ==
    /\ DiffShown
    /\ Len(TheContent) >= 3
    /\ TheContent[1].AB = <<>>
    /\ Len(TheContent[2].AB) = 2 * maxContext + 1
    /\ TheContent[3].AB = <<>>

\* C28 - Put, Submit and Abandon need a loaded snapshot: however the first
\* load and the event loop interleave, and also after a load that failed,
\* writeCL, writePatchSet, Submit and Abandon run on a CL that a successful
\* load of the window has set: no command dereferences a nil w.cl, and no Put
\* hands a nil CL to writeCL or writePatchSet.
C28_LoadedSnapshot ==
    /\ ~Panicked
    /\ last.cmd = "put" => last.old # NoCL

\* the comment headers of the document that findComment matched to nothing
Misses(doc) == {q \in 1..Len(doc) : doc[q].k = "Hdr" /\ MatchedAt(doc, q) = 0}

\* the blocks of free text right under the header at q
BlocksUnder(doc, q) == {p \in BlockStarts(doc) : NearestAbove(doc, p) = q}

\* what writePatchSet writes to errbuf about drafts
DraftDiags ==
    {"add draft", "delete draft", "saving draft", "deleting draft",
     "unexpected comment before first file"}

\* the calls of the last run that failed
FailedOf(calls) == {i \in 1..Len(calls) : ~calls[i].ok}

MissGoesOn(doc) ==
    /\ Len(DraftsSent) = Cardinality(BlockStarts(doc))
    /\ \A q \in Misses(doc) : \A p \in BlocksUnder(doc, q) :
          DraftOf(DraftsSent[BlockNumber(doc, p)]).InReplyTo = 0
    /\ \A i \in 1..Len(last.errbuf) : last.errbuf[i].msg \in DraftDiags
    /\ (~last.dry /\ FailedOf(last.calls) = {} /\ DiagsOf({"unexpected comment before first file"}) = {})
          => ~last.xerr

\* C22 - a lookup miss does not abort: when a comment header of the
\* patch-set document matches no known comment, the scan goes on (every block
\* of free text is still sent), the block under that header is sent with an
\* empty reply-to, and nothing about the miss is in errbuf: a run that is
\* live, whose calls all succeed and that has no text before the first file
\* returns nil.
C22_LookupMiss ==
    (PutRan /\ mode = modePatchSet /\ Misses(last.doc) # {}) => MissGoesOn(last.doc)

\* a live run with a missed header, a block under it and a block further
\* down, which returned nil
C22_Witness ==
    /\ PutRan /\ mode = modePatchSet /\ ~last.dry /\ ~last.xerr
    /\ \E q \in Misses(last.doc) :
          /\ BlocksUnder(last.doc, q) # {}
          /\ \E p \in BlockStarts(last.doc) : NearestAbove(last.doc, p) > q

\* the lookups the rule allows for the tokens of a line, in order
RECURSIVE RuleLookups(_, _)
RuleLookups(old, toks) ==
    IF toks = <<>> THEN <<>>
    ELSE (IF NamedBy(old, Head(toks)) # {} THEN <<>>
          ELSE IF last.env.sug[Query(Head(toks))].err1 /\ Len(Head(toks)) >= 3
          THEN <<Query(Head(toks)), Query(Head(toks))>>
          ELSE <<Query(Head(toks))>>)
         \o RuleLookups(old, Tail(toks))

\* the tokens of a line that name no known reviewer
Unnamed(old, toks) == {k \in 1..Len(toks) : NamedBy(old, toks[k]) = {}}

\* the adds of the run, made or logged
AddsOf == CallsOf({"AddReviewer"}) \cup DiagsOf({"add reviewer"})

\* C23 - number of lookups per token: for each token of the Reviewers line
\* writeCL looks up suggestions not at all when the token is a known
\* reviewer's short name or full e-mail, and then adds nobody for it either,
\* otherwise once, and a second time only when the first call failed and the
\* token has at least 3 characters.
C23_LookupsPerToken ==
    (PutRan /\ mode = modeCL) =>
        \A i \in ReviewersLines :
            /\ last.lookups = RuleLookups(last.old, last.doc[i].toks)
            /\ Cardinality(AddsOf) <= Cardinality(Unnamed(last.old, last.doc[i].toks))

\* a run over a line with a known reviewer, for whom nothing is looked up,
\* and a token of 3 characters or more whose first lookup failed
C23_Witness ==
    /\ PutRan /\ mode = modeCL
    /\ \E i \in ReviewersLines :
          /\ \E k \in 1..Len(last.doc[i].toks) : NamedBy(last.old, last.doc[i].toks[k]) # {}
          /\ \E k \in Unnamed(last.old, last.doc[i].toks) :
                last.env.sug[Query(last.doc[i].toks[k])].err1 /\ Len(last.doc[i].toks[k]) >= 3

\* the token with an @ at its end when it has none
WithAt(f) == IF \E k \in 1..Len(f) : f[k] = "@" THEN f ELSE f \o <<"@">>

\* the characters that stand before the first @
BeforeAt(q) == Min({k \in 1..Len(q) : q[k] = "@"}) - 1

\* the query by the rule: the domain hint after the @ exactly when hinted
Hinted(f, hinted) == IF hinted THEN WithAt(f) \o <<"g", "o">> ELSE WithAt(f)

\* the queries of the last run
Looked == {last.lookups[k] : k \in 1..Len(last.lookups)}

\* C24 as claimed - query normalisation: the query built from a token is the
\* token, with @ appended when it has none, and with the domain hint after
\* the @ exactly when two characters stand before the @.
C24_HintAfterTwo ==
    (PutRan /\ mode = modeCL) =>
        \A i \in ReviewersLines :
            Looked = {Hinted(last.doc[i].toks[k], BeforeAt(WithAt(last.doc[i].toks[k])) = 2) :
                         k \in Unnamed(last.old, last.doc[i].toks)}

\* C24 - query normalisation: the query built from a token is the token,
\* with @ appended when it has none, and with the domain hint appended
\* exactly when the query is then two characters long, the @ included.
C24_HintAtTwo ==
    (PutRan /\ mode = modeCL) =>
        \A i \in ReviewersLines :
            Looked = {Hinted(last.doc[i].toks[k], Len(WithAt(last.doc[i].toks[k])) = 2) :
                         k \in Unnamed(last.old, last.doc[i].toks)}

\* a run that looked up a token of two characters
C24_Witness ==
    /\ PutRan /\ mode = modeCL
    /\ \E i \in ReviewersLines : \E k \in Unnamed(last.old, last.doc[i].toks) :
          Len(last.doc[i].toks[k]) = 2
    /\ qAB \in Looked

\* C25 - a failed add never causes a removal: the reviewers writeCL calls
\* DeleteReviewer for are the same whether the AddReviewer calls of the run
\* succeed or fail; a known reviewer that a resolved token stands for is not
\* removed because the add for that token failed.
C25_FailedAddNoRemoval ==
    (PutRan /\ mode = modeCL /\ ~last.dry) =>
        ArgsOf(last.calls, "DeleteReviewer") = ArgsOf(Unfailed.calls, "DeleteReviewer")

\* the draft names a line of a file, or the file, on a revision of the change
WellAddressed(d) == d.c.Line >= 0 /\ d.rev # ""

\* C26 - every draft sent is well addressed: each draft writePatchSet sends
\* has Line >= 0 and goes to an existing revision of the change, wherever in
\* the document its text was typed: in the file-level region of a file,
\* between the header lines of a diff and its first hunk header, or right
\* after a hunk header.
C26_WellAddressed ==
    (PutRan /\ mode = modePatchSet) => \A d \in SentDrafts : WellAddressed(d)

\* a turn of the outer loop is about to run
InLoop == format.pc = "loop" /\ format.content # <<>>

\* C30 - formatUnifiedDiff terminates on every finite chunk sequence: each
\* turn of its outer loop takes at least one chunk off the remaining content,
\* also when the long common block that ends a run is left in the content to
\* start the next run.
C30_Terminates ==
    [][InLoop => Len(format'.content) < Len(format.content)]_vars

\* a turn has left in the content the long common block its run ended with,
\* and more chunks after it
C30_Witness ==
    /\ InLoop
    /\ format.content # format.input
    /\ Len(format.content[1].AB) > 2 * maxContext
    /\ Len(format.content) >= 2

\* a call returns what formatUnifiedDiff computes
ReturnsOut == format.pc = "done" => format.out = formatUnifiedDiff(DiffOf(format.input))

\* C27 - a run is entirely dry or entirely live: a Put that begins with the
\* dry-run flag set issues no mutating call, also when another window
\* executes Nop while the Put is in progress, and no run logs one mutation
\* in place of a call and makes a later call for real.
C27_DryOrLive ==
    PutRan =>
        /\ last.dry => last.calls = <<>>
        /\ Logs = <<>> \/ last.calls = <<>>
====
